---- MODULE Spec2Model ----
(***************************************************************************)
(* Model of the job scraping pipeline of the Magnification job search      *)
(* application (utils/backend/scrapers): the data processor, the filter    *)
(* engine, the concurrent scraper and the workflow orchestrator.           *)
(*                                                                         *)
(* Text is modelled as a sequence of one-character strings, so that        *)
(* str.strip(), str.lower() and the `in` substring test are computed       *)
(* rather than assumed.  A posting is a dictionary: a function from the    *)
(* keys it has to values, a value being None, a text or a number (records  *)
(* of one shape, so that any two values compare).                          *)
(***************************************************************************)
EXTENDS Integers, Sequences, FiniteSets, TLC

VARIABLES
    \* ---- data processor: deduplicate_jobs / process_scraped_jobs
    p_pc,           \* "idle" | "raw" | "deduped" | "rededuped" | "processed"
    raw_jobs,       \* the list handed to deduplicate_jobs / process_scraped_jobs
    unique_jobs,    \* what deduplicate_jobs returned
    again_jobs,     \* what deduplicate_jobs returned on its own output
    db_ready_jobs,  \* what process_scraped_jobs returned
    \* ---- data processor: clean_job_data on one posting
    c_pc,           \* "idle" | "raw" | "cleaned"
    c_job,          \* the raw posting
    c_cleaned,      \* what clean_job_data returned
    \* ---- filter engine (job_filter.py) on one record
    f_pc,           \* "idle" | "ready" | "done"
    f_job,          \* the record
    filter_config,  \* [job_titles, description_keywords]
    f_title_ok,     \* what apply_title_filter returned
    f_keyword_ok,   \* what apply_keyword_filter returned
    f_keep,         \* what apply_filters returned
    \* ---- concurrent scraper (concurrent_scraper.py, jobspy_wrapper.py)
    s_pc,           \* JobSpyScraper.run: "idle" | "collecting" | "returned" | "raised"
    sites,          \* JobSpyScraper.sites, the source list of every task
    num_threads,    \* the pool's max_workers
    tasks,          \* JobSpyScraper.tasks: per task its future's state, the
                    \* position in the source list, jobs_data, site_counts, errors
    collected,      \* the futures as_completed has yielded so far
    completed_tasks,\* JobSpyScraper.completed_tasks (task indices)
    all_jobs,       \* JobSpyScraper.all_jobs
    fetched,        \* history: per task, what each scrape_jobs call did
    \* ---- workflow orchestrator (scraping_service.py) and the job store
    w_pc,           \* execute_full_scraping_workflow: "idle" | "called" |
                    \* "configured" | "scraped" | "lookup" | "create" |
                    \* "stored" | "returned" | "raised"
    w_args,         \* the call's job_titles, sites and save_to_database
    w_config,       \* config/jobs_config.json: missing, malformed or its lists
    results,        \* the results dictionary: success, steps, errors
    job_titles,     \* the local job_titles after step 1
    w_sites,        \* the local sites after step 1
    w_raw_jobs,     \* scraper.all_jobs
    processed_jobs, \* what process_scraped_jobs returned
    w_i,            \* position of the storage loop in processed_jobs
    job_ids,        \* ids add_job returned
    stored_count,
    skipped_count,
    store_jobs,     \* the jobs table: row i has id i
    store_status,   \* the application_statuses table: <<job_id, status>>
    w_fetches,      \* history: how many times scrape_jobs was called
    w_runs,         \* history: what each task's run did, and the order in
                    \* which the futures completed
    w_dbcalls,      \* history: how many operations reached the database
    w_faults,       \* history: the exceptions raised in the run
    \* ---- JobSpyScraper.num_threads read once
    t_pc,           \* "idle" | "built" | "read"
    t_max_threads,  \* JobSpyScraper._max_threads: None or an integer
    t_cpu_count,    \* what multiprocessing.cpu_count() returns
    t_num_threads,  \* what the num_threads property returned
    \* ---- filter_and_mark_jobs called twice on the job store
    m_pc,           \* "idle" | "ready" | "once" | "twice"
    m_job_ids,      \* the id list of both calls
    m_before,       \* the jobs table before the first call
    m_first,        \* the jobs table after the first call
    m_returned,     \* per call: what it returned, or that it raised
    \* ---- filter_jobs on a list of records
    k_pc,           \* "idle" | "ready" | "done"
    k_jobs,         \* the list handed to filter_jobs
    k_config,       \* the filter configuration handed to filter_jobs
    k_result,       \* what filter_jobs returned
    \* ---- get_job_statistics on a list of records
    g_pc,           \* "idle" | "ready" | "done"
    g_jobs,         \* the list handed to get_job_statistics
    g_stats,        \* what get_job_statistics returned
    \* ---- the persistence operations called in any order
    d_pc,           \* "idle" | "open"
    d_deleted,      \* the ids of the rows deleted from the jobs table
    d_last,         \* the last operation called and whether it raised
    \* ---- one call of add_job, step by step
    a_pc,           \* "idle" | "called" | "validated" | "open" | "flushed" | "body" |
                    \* "except" | "finally" | "returned" | "raised"
    a_job_data,     \* the job_data argument
    a_create_statuses, \* the create_statuses argument
    a_before,       \* the committed tables when add_job was called
    a_jobs,         \* the committed rows of the jobs table
    a_status,       \* the committed rows of the application_statuses table
    a_session,      \* the session of get_db_context: "none" | "open" | "closed"
    a_pending,      \* what the session's transaction holds uncommitted
    a_exc,          \* the exception on its way out of add_job, <<>> when none
    \* ---- the arguments composed for scrape_jobs
    b_pc,           \* "idle" | "ready" | "done"
    b_site,         \* the site of the fetch
    b_hours_old,    \* hours_old
    b_location,     \* location: None or a text
    b_task_args,    \* scrape_args of JobScrapeTask.run for the site
    b_single_args,  \* scrape_args of scrape_single_site
    \* ---- two workflow runs in their own threads, one store
    x_pc,           \* per run: "idle", "lookup", "create", "stored", "failed"
    x_jobs,         \* per run: its processed_jobs
    x_i,            \* per run: index of the record the storage loop is at
    x_job_ids,      \* per run: job_ids
    x_stored,       \* per run: stored_count
    x_skipped,      \* per run: skipped_count
    x_store,        \* the jobs table the runs share
    x_status,       \* the application status records the runs share
    \* ---- the background scrape jobs of the routes
    scrape_jobs,    \* job id -> the entry of the in-memory status map
    j_pc,           \* per job: where its thread is: "pending", "running", "called", "settled", "ended"
    j_use_config,   \* per job: use_config of the request
    j_call,         \* per job: how the call of the workflow ended
    j_now           \* time.time(), in seconds

p_vars == <<p_pc, raw_jobs, unique_jobs, again_jobs, db_ready_jobs>>
c_vars == <<c_pc, c_job, c_cleaned>>
f_vars == <<f_pc, f_job, filter_config, f_title_ok, f_keyword_ok, f_keep>>

s_vars == <<s_pc, sites, num_threads, tasks, collected, completed_tasks, all_jobs, fetched>>

w_vars == <<w_pc, w_args, w_config, results, job_titles, w_sites, w_raw_jobs,
           processed_jobs, w_i, job_ids, stored_count, skipped_count,
           store_jobs, store_status, w_fetches, w_runs, w_dbcalls, w_faults>>

t_vars == <<t_pc, t_max_threads, t_cpu_count, t_num_threads>>

m_vars == <<m_pc, m_job_ids, m_before, m_first, m_returned>>
k_vars == <<k_pc, k_jobs, k_config, k_result>>
g_vars == <<g_pc, g_jobs, g_stats>>
d_vars == <<d_pc, d_deleted, d_last>>
a_vars == <<a_pc, a_job_data, a_create_statuses, a_before, a_jobs, a_status, a_session, a_pending, a_exc>>
b_vars == <<b_pc, b_site, b_hours_old, b_location, b_task_args, b_single_args>>
x_vars == <<x_pc, x_jobs, x_i, x_job_ids, x_stored, x_skipped, x_store, x_status>>
j_vars == <<scrape_jobs, j_pc, j_use_config, j_call, j_now>>

vars == <<p_vars, c_vars, f_vars, s_vars, w_vars, t_vars, m_vars, k_vars, g_vars, d_vars, a_vars, b_vars, x_vars, j_vars>>

-----------------------------------------------------------------------------
(* Bounds *)

MaxJobs == 3        \* longest list of raw postings
MaxGroups == 2      \* most groups in a nested filter list
MaxPool == 4        \* most tasks and sites of one scraper run, added up

-----------------------------------------------------------------------------
(* Values and text *)

None    == [k |-> "none",    s |-> <<>>, n |-> 0]
Txt(s)  == [k |-> "str",     s |-> s,    n |-> 0]
Num(n)  == [k |-> "num",     s |-> <<>>, n |-> n]

NoneText == <<"N", "o", "n", "e">>

IsSpace(c) == c = " "

LowerChar(c) ==
    CASE c = "A" -> "a"
      [] c = "B" -> "b"
      [] c = "C" -> "c"
      [] c = "N" -> "n"
      [] OTHER   -> c

\* str.lower()
Lower(s) == [i \in 1..Len(s) |-> LowerChar(s[i])]

RECURSIVE LStrip(_)
LStrip(s) ==
    IF s = <<>> THEN <<>>
    ELSE IF IsSpace(Head(s)) THEN LStrip(Tail(s)) ELSE s

RECURSIVE RStrip(_)
RStrip(s) ==
    IF s = <<>> THEN <<>>
    ELSE IF IsSpace(s[Len(s)]) THEN RStrip(SubSeq(s, 1, Len(s) - 1)) ELSE s

\* str.strip()
Strip(s) == RStrip(LStrip(s))

\* `p in s` for two texts
Contains(p, s) ==
    \E i \in 0..(Len(s) - Len(p)) : SubSeq(s, i + 1, i + Len(p)) = p

RECURSIVE Digits(_)
Digits(n) ==
    IF n < 10 THEN <<CASE n = 0 -> "0" [] n = 1 -> "1" [] n = 2 -> "2"
                       [] n = 3 -> "3" [] n = 4 -> "4" [] n = 5 -> "5"
                       [] n = 6 -> "6" [] n = 7 -> "7" [] n = 8 -> "8"
                       [] OTHER -> "9">>
    ELSE Digits(n \div 10) \o Digits(n % 10)

\* str(value) for a value that is present
Str(v) ==
    CASE v.k = "none" -> NoneText
      [] v.k = "num"  -> Digits(v.n)
      [] OTHER        -> v.s

\* dict.get(field, default): the default only replaces an absent key
Get(job, field, default) ==
    IF field \in DOMAIN job THEN job[field] ELSE default

\* Python truthiness of a value returned by dict.get(field)
Truthy(v) ==
    CASE v.k = "none"    -> FALSE
      [] v.k = "num"     -> v.n # 0
      [] OTHER           -> v.s # <<>>

-----------------------------------------------------------------------------
(* data_processor.py *)

\* the composite key of deduplicate_jobs
KeyPart(job, field) == Lower(Strip(Str(Get(job, field, Txt(<<>>)))))

DedupKey(job) ==
    <<KeyPart(job, "title"), KeyPart(job, "company"), KeyPart(job, "location")>>

\* DedupFrom without the `and title and company` test
RECURSIVE DedupFrom_NoRequired(_, _, _)
DedupFrom_NoRequired(job_list, i, seen) ==
    IF i > Len(job_list) THEN <<>>
    ELSE LET job == job_list[i]
             key == DedupKey(job)
         IN  IF key \notin seen
             THEN <<job>> \o DedupFrom_NoRequired(job_list, i + 1, seen \cup {key})
             ELSE DedupFrom_NoRequired(job_list, i + 1, seen)

\* the loop of deduplicate_jobs from index i on, with the keys seen so far
RECURSIVE DedupFrom(_, _, _)
DedupFrom(job_list, i, seen) ==
    IF i > Len(job_list) THEN <<>>
    ELSE LET job == job_list[i]
             key == DedupKey(job)
         IN  IF key \notin seen /\ key[1] # <<>> /\ key[2] # <<>>
             THEN <<job>> \o DedupFrom(job_list, i + 1, seen \cup {key})
             ELSE DedupFrom(job_list, i + 1, seen)

\* deduplicate_jobs inserting each kept posting at the front of the result
RECURSIVE DedupPrepend(_, _, _, _)
DedupPrepend(job_list, i, seen, out) ==
    IF i > Len(job_list) THEN out
    ELSE LET job == job_list[i]
             key == DedupKey(job)
         IN  IF key \notin seen /\ key[1] # <<>> /\ key[2] # <<>>
             THEN DedupPrepend(job_list, i + 1, seen \cup {key}, <<job>> \o out)
             ELSE DedupPrepend(job_list, i + 1, seen, out)

deduplicate_jobs_Prepend(job_list) == DedupPrepend(job_list, 1, {}, <<>>)

deduplicate_jobs(job_list) == DedupFrom(job_list, 1, {})

RECURSIVE Pad3(_)
Pad3(n) ==
    IF n < 10 THEN <<"0", "0">> \o Digits(n)
    ELSE IF n < 100 THEN <<"0">> \o Digits(n) ELSE Digits(n)

\* format(x, ",.0f") for a whole number x >= 0
RECURSIVE Fmt(_)
Fmt(n) ==
    IF n < 1000 THEN Digits(n)
    ELSE Fmt(n \div 1000) \o <<",">> \o Pad3(n % 1000)

IsDigit(c) == c \in {"0", "1", "2", "3", "4", "5", "6", "7", "8", "9"}

DigitVal(c) ==
    CASE c = "0" -> 0 [] c = "1" -> 1 [] c = "2" -> 2 [] c = "3" -> 3
      [] c = "4" -> 4 [] c = "5" -> 5 [] c = "6" -> 6 [] c = "7" -> 7
      [] c = "8" -> 8 [] OTHER -> 9

RECURSIVE ParseNat(_)
ParseNat(s) ==
    IF s = <<>> THEN 0
    ELSE 10 * ParseNat(SubSeq(s, 1, Len(s) - 1)) + DigitVal(s[Len(s)])

\* whether float(v) returns (otherwise it raises ValueError or TypeError)
FloatOk(v) ==
    \/ v.k = "num"
    \/ /\ v.k = "str"
       /\ Strip(v.s) # <<>>
       /\ \A i \in 1..Len(Strip(v.s)) : IsDigit(Strip(v.s)[i])

\* float(v), for a v with FloatOk(v)
Float(v) == IF v.k = "num" THEN v.n ELSE ParseNat(Strip(v.s))

\* the string fields of clean_job_data: str(value).strip(), '' for None
CleanField(job, field) ==
    LET value == Get(job, field, None)
    IN  IF value.k # "none" THEN Strip(Str(value)) ELSE <<>>

\* the job_url -> link fallback of clean_job_data
CleanLink(job) ==
    IF CleanField(job, "link") = <<>> /\ Truthy(Get(job, "job_url", None))
    THEN Strip(Str(Get(job, "job_url", None)))
    ELSE CleanField(job, "link")

\* the compensation text clean_job_data builds from the salary fields
BuildCompensation(job) ==
    LET min_amount == Get(job, "min_amount", None)
        max_amount == Get(job, "max_amount", None)
        currency   == Str(Get(job, "currency", Txt(<<"$">>)))
        interval   == Get(job, "interval", Txt(<<>>))
        suffix     == IF Truthy(interval) THEN <<" ">> \o Str(interval) ELSE <<>>
    IN  IF Truthy(min_amount) \/ Truthy(max_amount)
        THEN IF Truthy(min_amount) /\ Truthy(max_amount)
             THEN IF FloatOk(min_amount) /\ FloatOk(max_amount)
                  THEN currency \o Fmt(Float(min_amount)) \o <<" ", "-", " ">>
                       \o currency \o Fmt(Float(max_amount)) \o suffix
                  ELSE <<>>
             ELSE IF Truthy(min_amount)
             THEN IF FloatOk(min_amount)
                  THEN currency \o Fmt(Float(min_amount)) \o suffix
                  ELSE <<>>
             ELSE IF FloatOk(max_amount)
                  THEN currency \o Fmt(Float(max_amount)) \o suffix
                  ELSE <<>>
        ELSE <<>>

CleanCompensation(job) ==
    IF CleanField(job, "compensation") = <<>>
    THEN BuildCompensation(job)
    ELSE CleanField(job, "compensation")

clean_job_data(job) ==
    [title        |-> Txt(CleanField(job, "title")),
     company      |-> Txt(CleanField(job, "company")),
     location     |-> Txt(CleanField(job, "location")),
     link         |-> Txt(CleanLink(job)),
     description  |-> Txt(CleanField(job, "description")),
     compensation |-> Txt(CleanCompensation(job)),
     site         |-> Txt(CleanField(job, "site")),
     search_term  |-> Txt(CleanField(job, "search_term"))]

RequiredOk(job, field) ==
    LET value == job[field]
    IN  Truthy(value) /\ Strip(Str(value)) # <<>>

\* validate_job with 'location' left out of required_fields
validate_job_NoLocation(job) ==
    /\ RequiredOk(job, "title")
    /\ RequiredOk(job, "company")

validate_job(job) ==
    /\ RequiredOk(job, "title")
    /\ RequiredOk(job, "company")
    /\ RequiredOk(job, "location")

transform_to_db_format(job) ==
    [title        |-> job.title,
     company      |-> job.company,
     location     |-> job.location,
     link         |-> job.link,
     description  |-> job.description,
     compensation |-> job.compensation,
     ignore       |-> 0]

\* steps 2-4 of process_scraped_jobs over the deduplicated list
RECURSIVE CleanValidateTransform(_)
CleanValidateTransform(jobs) ==
    IF jobs = <<>> THEN <<>>
    ELSE LET cleaned == clean_job_data(Head(jobs))
         IN  (IF validate_job(cleaned)
              THEN <<transform_to_db_format(cleaned)>> ELSE <<>>)
             \o CleanValidateTransform(Tail(jobs))

process_scraped_jobs(jobs) == CleanValidateTransform(deduplicate_jobs(jobs))

-----------------------------------------------------------------------------
(* job_filter.py *)

\* An element of a filter list of jobs_config.json: a pattern string or a
\* group (a list of pattern strings).
PatStr(s)   == [k |-> "str",  s |-> s,    g |-> <<>>]
PatGroup(g) == [k |-> "list", s |-> <<>>, g |-> g]

RECURSIVE JoinQuoted(_)
JoinQuoted(g) ==
    IF g = <<>> THEN <<>>
    ELSE <<"'">> \o Head(g) \o <<"'">>
         \o (IF Len(g) > 1 THEN <<",", " ">> ELSE <<>>) \o JoinQuoted(Tail(g))

\* str(pattern) for an element met as a pattern
PatternText(e) ==
    IF e.k = "str" THEN e.s ELSE <<"[">> \o JoinQuoted(e.g) \o <<"]">>

\* the patterns `for pattern in group` yields for an element met as a group:
\* the items of a list, the characters of a string
GroupPatterns(e) ==
    IF e.k = "list" THEN e.g ELSE [i \in 1..Len(e.s) |-> <<e.s[i]>>]

\* groups taken without the test on the first element: every element of
\* the list is iterated as a group
FilterGroups_AlwaysNested(allowed) ==
    [i \in 1..Len(allowed) |-> GroupPatterns(allowed[i])]

\* the groups the filters iterate over: the list itself when its first
\* element is a list, otherwise the whole list as one group
FilterGroups(allowed) ==
    IF allowed[1].k = "list"
    THEN [i \in 1..Len(allowed) |-> GroupPatterns(allowed[i])]
    ELSE <<[i \in 1..Len(allowed) |-> PatternText(allowed[i])]>>

\* the body of the loop over the groups: an empty group is skipped, another
\* one needs a pattern whose lowercase form is in the text
GroupMatches(group, text) ==
    \/ group = <<>>
    \/ \E i \in 1..Len(group) : Contains(Lower(group[i]), text)

\* apply_title_filter with OR between the groups
apply_title_filter_AnyGroup(job, allowed_titles) ==
    IF allowed_titles = <<>> THEN TRUE
    ELSE LET job_title == Lower(Str(Get(job, "title", Txt(<<>>))))
             groups    == FilterGroups(allowed_titles)
         IN  \E i \in 1..Len(groups) : GroupMatches(groups[i], job_title)

apply_title_filter(job, allowed_titles) ==
    IF allowed_titles = <<>> THEN TRUE
    ELSE LET job_title == Lower(Str(Get(job, "title", Txt(<<>>))))
             groups    == FilterGroups(allowed_titles)
         IN  \A i \in 1..Len(groups) : GroupMatches(groups[i], job_title)

apply_keyword_filter(job, keywords) ==
    IF keywords = <<>> THEN TRUE
    ELSE LET description == Lower(Str(Get(job, "description", Txt(<<>>))))
             groups      == FilterGroups(keywords)
         IN  \A i \in 1..Len(groups) : GroupMatches(groups[i], description)

\* apply_filters returning False when no filter is configured
apply_filters_EmptyRejects(job, config) ==
    LET allowed_titles == config.job_titles
        keywords       == config.description_keywords
    IN  IF allowed_titles = <<>> /\ keywords = <<>> THEN FALSE
        ELSE IF allowed_titles # <<>> /\ ~apply_title_filter(job, allowed_titles)
        THEN FALSE
        ELSE IF keywords # <<>> /\ ~apply_keyword_filter(job, keywords)
        THEN FALSE
        ELSE TRUE

apply_filters(job, config) ==
    LET allowed_titles == config.job_titles
        keywords       == config.description_keywords
    IN  IF allowed_titles = <<>> /\ keywords = <<>> THEN TRUE
        ELSE IF allowed_titles # <<>> /\ ~apply_title_filter(job, allowed_titles)
        THEN FALSE
        ELSE IF keywords # <<>> /\ ~apply_keyword_filter(job, keywords)
        THEN FALSE
        ELSE TRUE

-----------------------------------------------------------------------------
(* jobspy_wrapper.py: JobScrapeTask *)

SUPPORTED_SITES == <<"indeed", "linkedin", "glassdoor", "zip_recruiter", "google">>

\* dict[key] = value
Put(d, key, value) ==
    [x \in DOMAIN d \cup {key} |-> IF x = key THEN value ELSE d[x]]

EmptyDict == [x \in {} |-> 0]

\* a JobScrapeTask as constructed, its run submitted to the pool
NewTask(title) ==
    [job_title |-> title, state |-> "queued", next |-> 1, jobs_data |-> <<>>,
     site_counts |-> EmptyDict, errors |-> EmptyDict]

\* what scrape_jobs can do: return postings ("records"), return None or an
\* empty frame ("empty": the else branch of the test on jobs_df), or raise
FetchOutcomes == {"records", "empty", "raise"}

\* a record of the frame scrape_jobs returns, search_term column added
Posting(title, company, location, site, term) ==
    [title |-> Txt(title), company |-> Txt(company), location |-> location,
     site |-> Txt(<<site>>), search_term |-> Txt(term)]

\* the records a source holds for a search term: indeed has the posting
\* twice (the second differing in spacing only), linkedin has the same
\* posting once more, glassdoor has it without a location, the others have
\* it from another company
SourceRecords(term, site) ==
    CASE site = "indeed" ->
             <<Posting(term, <<"b">>, Txt(<<"c">>), site, term),
               Posting(<<" ">> \o term \o <<" ">>, <<"b">>, Txt(<<"c">>), site, term)>>
      [] site = "linkedin" ->
             <<Posting(term, <<"b">>, Txt(<<"c">>), site, term)>>
      [] site = "glassdoor" ->
             <<Posting(term, <<"b">>, None, site, term)>>
      [] OTHER ->
             <<Posting(term, <<"d">>, Txt(<<"c">>), site, term)>>

\* str(e) of the exception a failing fetch raises
FetchError(site) == <<"fetch failed", site>>

\* one pass of the loop body of JobScrapeTask.run that forgets the error
SiteStep_ErrorNotRecorded(task, site, outcome) ==
    LET term == task.job_title IN
    IF outcome = "records"
    THEN [task EXCEPT !.jobs_data = @ \o SourceRecords(term, site),
                      !.site_counts = Put(@, site, Len(SourceRecords(term, site))),
                      !.next = @ + 1]
    ELSE [task EXCEPT !.site_counts = Put(@, site, 0), !.next = @ + 1]

\* a loop body that fetches a failed site a second time
SiteStep_Retry(task, site, outcome) ==
    LET term == task.job_title IN
    IF outcome = "records"
    THEN [task EXCEPT !.jobs_data = @ \o SourceRecords(term, site),
                      !.site_counts = Put(@, site, Len(SourceRecords(term, site))),
                      !.next = @ + 1]
    ELSE IF outcome = "empty"
    THEN [task EXCEPT !.site_counts = Put(@, site, 0), !.next = @ + 1]
    ELSE [task EXCEPT !.site_counts = Put(@, site, 0),
                      !.errors = Put(@, site, FetchError(site)),
                      !.next = IF site \in DOMAIN task.errors THEN @ + 1 ELSE @]

\* a loop body that treats an empty result as a failure
SiteStep_EmptyIsError(task, site, outcome) ==
    LET term == task.job_title IN
    IF outcome = "records"
    THEN [task EXCEPT !.jobs_data = @ \o SourceRecords(term, site),
                      !.site_counts = Put(@, site, Len(SourceRecords(term, site))),
                      !.next = @ + 1]
    ELSE [task EXCEPT !.site_counts = Put(@, site, 0),
                      !.errors = Put(@, site, FetchError(site)),
                      !.next = @ + 1]

\* one pass of the loop body of JobScrapeTask.run, for one site
\* the loop body without the count of 0 in the else branch
SiteStep_NoZeroCount(task, site, outcome) ==
    LET term == task.job_title IN
    IF outcome = "records"
    THEN [task EXCEPT !.jobs_data = @ \o SourceRecords(term, site),
                      !.site_counts = Put(@, site, Len(SourceRecords(term, site))),
                      !.next = @ + 1]
    ELSE IF outcome = "empty"
    THEN [task EXCEPT !.next = @ + 1]
    ELSE [task EXCEPT !.site_counts = Put(@, site, 0),
                      !.errors = Put(@, site, FetchError(site)),
                      !.next = @ + 1]

SiteStep(task, site, outcome) ==
    LET term == task.job_title IN
    IF outcome = "records"
    THEN [task EXCEPT !.jobs_data = @ \o SourceRecords(term, site),
                      !.site_counts = Put(@, site, Len(SourceRecords(term, site))),
                      !.next = @ + 1]
    ELSE IF outcome = "empty"
    THEN [task EXCEPT !.site_counts = Put(@, site, 0), !.next = @ + 1]
    ELSE [task EXCEPT !.site_counts = Put(@, site, 0),
                      !.errors = Put(@, site, FetchError(site)),
                      !.next = @ + 1]

-----------------------------------------------------------------------------
(* jobspy_wrapper.py: the search term composed for Google *)

\* the if/elif chain with the bounds excluded
DateStr_Exclusive(hours_old) ==
    IF hours_old < 24 THEN <<"24 Hours">>
    ELSE IF hours_old < 48 THEN <<"2 Days">>
    ELSE IF hours_old < 72 THEN <<"3 Days">>
    ELSE IF hours_old < 168 THEN <<"Week">>
    ELSE IF hours_old < 720 THEN <<"Month">>
    ELSE Digits(hours_old) \o <<" Hours">>

\* date_str of JobScrapeTask._generate_google_search_term
DateStr(hours_old) ==
    IF hours_old <= 24 THEN <<"24 Hours">>
    ELSE IF hours_old <= 48 THEN <<"2 Days">>
    ELSE IF hours_old <= 72 THEN <<"3 Days">>
    ELSE IF hours_old <= 168 THEN <<"Week">>
    ELSE IF hours_old <= 720 THEN <<"Month">>
    ELSE Digits(hours_old) \o <<" Hours">>

\* date_str of scrape_single_site: the default, then the same chain
DateStrSingle(hours_old) ==
    LET default == <<"24 Hours">>
    IN  IF hours_old <= 24 THEN <<"24 Hours">>
        ELSE IF hours_old <= 48 THEN <<"2 Days">>
        ELSE IF hours_old <= 72 THEN <<"3 Days">>
        ELSE IF hours_old <= 168 THEN <<"Week">>
        ELSE IF hours_old <= 720 THEN <<"Month">>
        ELSE Digits(hours_old) \o <<" Hours">>

\* f"{job_title} jobs near {location} in the last {date_str}"
SearchTermText(job_title, location, date_str) ==
    job_title \o <<" jobs near ">> \o location.s \o <<" in the last ">> \o date_str

\* the arguments every fetch has
BaseArgs(job_title, site, hours_old, location) ==
    [site_name |-> <<site>>, search_term |-> job_title, hours_old |-> hours_old,
     location |-> location]

\* scrape_args of one pass of JobScrapeTask.run
TaskScrapeArgs(job_title, site, hours_old, location) ==
    LET scrape_args == BaseArgs(job_title, site, hours_old, location)
    IN  IF site = "google" /\ Truthy(location)
        THEN Put(scrape_args, "google_search_term",
                 SearchTermText(job_title, location, DateStr(hours_old)))
        ELSE scrape_args

\* scrape_args of scrape_single_site
SingleScrapeArgs(job_title, site, hours_old, location) ==
    LET scrape_args == BaseArgs(job_title, site, hours_old, location)
    IN  IF site = "google" /\ Truthy(location)
        THEN Put(scrape_args, "google_search_term",
                 SearchTermText(job_title, location, DateStrSingle(hours_old)))
        ELSE scrape_args

-----------------------------------------------------------------------------
(* concurrent_scraper.py: JobSpyScraper.run *)

\* the body of the as_completed loop without the try/except
Collect_NoHandler(pc, done, jobs, t, task) ==
    IF task.state = "returned"
    THEN [pc |-> pc, completed_tasks |-> Append(done, t), all_jobs |-> jobs \o task.jobs_data]
    ELSE [pc |-> "raised", completed_tasks |-> done, all_jobs |-> jobs]

\* a loop body that assigns the task's postings to all_jobs
Collect_Overwrite(pc, done, jobs, t, task) ==
    IF task.state = "returned"
    THEN [pc |-> pc, completed_tasks |-> Append(done, t), all_jobs |-> task.jobs_data]
    ELSE [pc |-> pc, completed_tasks |-> done, all_jobs |-> jobs]

\* the body of the as_completed loop for the finished future of task t:
\* future.result() returns the task or raises what its run raised
Collect(pc, done, jobs, t, task) ==
    IF task.state = "returned"
    THEN [pc |-> pc, completed_tasks |-> Append(done, t), all_jobs |-> jobs \o task.jobs_data]
    ELSE [pc |-> pc, completed_tasks |-> done, all_jobs |-> jobs]


-----------------------------------------------------------------------------
(* database/operations.py on the jobs and application_statuses tables *)

APPLICATION_STATUSES ==
    <<"Applied", "Interview 1", "Interview 2", "Interview 3",
      "Post-Interview Rejection", "Offer", "Accepted", "Rejected",
      "Ignored/Ghosted">>

\* str(e) of the exception a failing database operation raises
DatabaseError == <<"database is locked">>

\* validate_job_data: the field it rejects, "" when it accepts the record
validate_job_data(job_data) ==
    LET bad(field) == field \notin DOMAIN job_data \/ ~Truthy(job_data[field])
    IN  IF bad("title") THEN "title"
        ELSE IF bad("company") THEN "company"
        ELSE IF bad("location") THEN "location"
        ELSE ""

\* the ValueError validate_job_data raises
RequiredFieldError(field) == <<"Required field '", field, "' is missing or empty">>

\* the 9 status records _create_status_records_for_job adds for a job
StatusRecords(job_id) ==
    {<<job_id, APPLICATION_STATUSES[i]>> : i \in 1..Len(APPLICATION_STATUSES)}

\* add_job.  db_ok is whether the session's flush and commit succeed; on
\* an exception get_db_context rolls back
add_job(rows, statuses, job_data, create_statuses, db_ok) ==
    IF validate_job_data(job_data) # ""
    THEN [raised |-> TRUE, msg |-> RequiredFieldError(validate_job_data(job_data)),
          store_jobs |-> rows, store_status |-> statuses, job_id |-> 0, dbcalls |-> 0]
    ELSE IF ~db_ok
    THEN [raised |-> TRUE, msg |-> DatabaseError,
          store_jobs |-> rows, store_status |-> statuses, job_id |-> 0, dbcalls |-> 1]
    ELSE LET job == [title        |-> job_data.title,
                     company      |-> job_data.company,
                     location     |-> job_data.location,
                     link         |-> Get(job_data, "link", None),
                     description  |-> Get(job_data, "description", None),
                     compensation |-> Get(job_data, "compensation", None),
                     ignore       |-> Get(job_data, "ignore", 0)]
             id == Len(rows) + 1
         IN  [raised |-> FALSE, msg |-> <<>>,
              store_jobs |-> Append(rows, job),
              store_status |-> IF create_statuses /\ job.ignore = 0
                               THEN statuses \cup StatusRecords(id) ELSE statuses,
              job_id |-> id, dbcalls |-> 1]

\* Job(title=job_data['title'], ..., ignore=job_data.get('ignore', 0))
JobRow(job_data) ==
    [title        |-> job_data.title,
     company      |-> job_data.company,
     location     |-> job_data.location,
     link         |-> Get(job_data, "link", None),
     description  |-> Get(job_data, "description", None),
     compensation |-> Get(job_data, "compensation", None),
     ignore       |-> Get(job_data, "ignore", 0)]

\* a transaction with nothing in it
NoPending == [jobs |-> <<>>, status |-> {}]

\* a flush that writes the job to the table at once, outside the transaction
SessionFlush_Autocommit(tables, pending, row) ==
    [jobs |-> Append(tables.jobs, row), status |-> tables.status,
     pending |-> pending, job_id |-> Len(tables.jobs) + 1]

\* db.add(job); db.flush(): the INSERT is sent inside the transaction and
\* the job gets its id; the committed table is as it was
SessionFlush(tables, pending, row) ==
    [jobs |-> tables.jobs, status |-> tables.status,
     pending |-> [pending EXCEPT !.jobs = Append(@, row)],
     job_id |-> Len(tables.jobs) + Len(pending.jobs) + 1]

\* db.commit(): what the transaction holds becomes part of the tables
SessionCommit(tables, pending) ==
    [jobs |-> tables.jobs \o pending.jobs, status |-> tables.status \cup pending.status]

\* db.rollback(), and db.close() of a session with an open transaction:
\* what the transaction holds is dropped
SessionRollback(pending) == NoPending

\* _job_to_dict of row id
JobToDict(rows, id) ==
    [id           |-> id,
     title        |-> rows[id].title,
     company      |-> rows[id].company,
     location     |-> rows[id].location,
     link         |-> rows[id].link,
     description  |-> rows[id].description,
     compensation |-> rows[id].compensation,
     ignore       |-> rows[id].ignore]

\* get_job_by_criteria finding nothing
get_job_by_criteria_NotFound(rows, title, company, location) == 0

\* get_job_by_criteria: the id of the first row with exactly this title,
\* company and location, 0 for None
get_job_by_criteria(rows, title, company, location) ==
    LET hits == {i \in 1..Len(rows) : /\ rows[i].title = title
                                      /\ rows[i].company = company
                                      /\ rows[i].location = location}
    IN  IF hits = {} THEN 0 ELSE CHOOSE i \in hits : \A j \in hits : i <= j

\* get_jobs_by_ids: the rows whose id is in job_id_list, in table order
RECURSIVE JobsFrom(_, _, _)
JobsFrom(rows, job_id_list, i) ==
    IF i > Len(rows) THEN <<>>
    ELSE (IF \E k \in 1..Len(job_id_list) : job_id_list[k] = i
          THEN <<JobToDict(rows, i)>> ELSE <<>>)
         \o JobsFrom(rows, job_id_list, i + 1)

\* a query without the filter on the ids: every row of the table
get_jobs_by_ids_All(rows, job_id_list) == [i \in 1..Len(rows) |-> JobToDict(rows, i)]

get_jobs_by_ids(rows, job_id_list) == JobsFrom(rows, job_id_list, 1)

\* set_job_ignore flipping the flag instead of setting it
set_job_ignore_Toggle(rows, job_id, ignore_value) ==
    IF job_id \in 1..Len(rows)
    THEN [rows EXCEPT ![job_id].ignore = 1 - @]
    ELSE rows

\* update_job(job_id, {'ignore': ignore_value}) through set_job_ignore
set_job_ignore(rows, job_id, ignore_value) ==
    IF job_id \in 1..Len(rows)
    THEN [rows EXCEPT ![job_id].ignore = ignore_value]
    ELSE rows

\* update_job on a row that exists: every key of updates that is an
\* attribute of the row, id excepted, is set
update_job(rows, job_id, updates) ==
    [rows EXCEPT ![job_id] =
        [field \in DOMAIN @ |->
            IF field \in DOMAIN updates /\ field # "id" THEN updates[field] ELSE @[field]]]

\* delete_job on a row that exists: the row goes, and with it its status
\* records (cascade="all, delete-orphan")
delete_job(deleted, statuses, job_id) ==
    [deleted |-> deleted \cup {job_id},
     store_status |-> {r \in statuses : r[1] # job_id}]

\* create_application_status_records: raises for an unknown job, an ignored
\* job and a job that has status records
create_application_status_records(rows, live, statuses, job_id) ==
    IF job_id \notin live
    THEN [raised |-> TRUE, msg |-> <<"Job with ID ", job_id, " not found">>,
          store_status |-> statuses]
    ELSE IF rows[job_id].ignore = 1
    THEN [raised |-> TRUE,
          msg |-> <<"Cannot create status records for ignored job ", job_id>>,
          store_status |-> statuses]
    ELSE IF \E r \in statuses : r[1] = job_id
    THEN [raised |-> TRUE, msg |-> <<"Status records already exist for job ", job_id>>,
          store_status |-> statuses]
    ELSE [raised |-> FALSE, msg |-> <<>>,
          store_status |-> statuses \cup StatusRecords(job_id)]

-----------------------------------------------------------------------------
(* job_filter.py: the configuration file, filter_jobs, filter_and_mark_jobs *)

\* config/jobs_config.json: "missing", "malformed" or "ok" with its lists
\* (a key the file does not have reads as the empty list)
ConfigFile(file, search_terms, title_filters, keywords) ==
    [file |-> file, search_terms |-> search_terms, job_titles |-> title_filters,
     description_keywords |-> keywords]

NoConfig == ConfigFile("missing", <<>>, <<>>, <<>>)

load_filter_config(file) ==
    IF file.file = "ok"
    THEN [job_titles |-> file.job_titles,
          description_keywords |-> file.description_keywords]
    ELSE [job_titles |-> <<>>, description_keywords |-> <<>>]

\* filter_jobs inserting each record at the front of its list
RECURSIVE filter_jobs_Prepend(_, _)
filter_jobs_Prepend(jobs, config) ==
    IF jobs = <<>> THEN [kept |-> <<>>, ignored |-> <<>>]
    ELSE LET rest == filter_jobs_Prepend(Tail(jobs), config)
         IN  IF apply_filters(Head(jobs), config)
             THEN [rest EXCEPT !.kept = @ \o <<Head(jobs)>>]
             ELSE [rest EXCEPT !.ignored = @ \o <<Head(jobs)>>]

\* filter_jobs keeping every record
filter_jobs_AllKept(jobs, config) == [kept |-> jobs, ignored |-> <<>>]

\* filter_jobs with the configuration given: the loop over jobs
RECURSIVE filter_jobs(_, _)
filter_jobs(jobs, config) ==
    IF jobs = <<>> THEN [kept |-> <<>>, ignored |-> <<>>]
    ELSE LET rest == filter_jobs(Tail(jobs), config)
         IN  IF apply_filters(Head(jobs), config)
             THEN [rest EXCEPT !.kept = <<Head(jobs)>> \o @]
             ELSE [rest EXCEPT !.ignored = <<Head(jobs)>> \o @]

\* the loop of filter_and_mark_jobs from job i on.  fail_at is the number
\* of the database operation that raises (0: none does); every
\* set_job_ignore before it is committed
RECURSIVE MarkFrom(_, _, _, _, _, _)
MarkFrom(rows, jobs, i, config, fail_at, acc) ==
    IF i > Len(jobs)
    THEN [raised |-> FALSE, store_jobs |-> rows, kept |-> acc.kept,
          ignored |-> acc.ignored, dbcalls |-> acc.dbcalls]
    ELSE IF apply_filters(jobs[i], config)
    THEN MarkFrom(rows, jobs, i + 1, config, fail_at, [acc EXCEPT !.kept = @ + 1])
    ELSE IF acc.dbcalls + 1 = fail_at
    THEN [raised |-> TRUE, store_jobs |-> rows, kept |-> acc.kept,
          ignored |-> acc.ignored, dbcalls |-> acc.dbcalls + 1]
    ELSE MarkFrom(set_job_ignore(rows, jobs[i].id, 1), jobs, i + 1, config, fail_at,
                  [acc EXCEPT !.ignored = @ + 1, !.dbcalls = @ + 1])

filter_and_mark_jobs(rows, job_id_list, file, fail_at) ==
    LET config == load_filter_config(file)
        jobs == get_jobs_by_ids(rows, job_id_list)
    IN  IF fail_at = 1
        THEN [raised |-> TRUE, store_jobs |-> rows, dbcalls |-> 1,
              result |-> [total_processed |-> 0, kept |-> 0, ignored |-> 0,
                          filter_config |-> config]]
        ELSE LET r == MarkFrom(rows, jobs, 1, config, fail_at,
                               [kept |-> 0, ignored |-> 0, dbcalls |-> 1])
             IN  [raised |-> r.raised, store_jobs |-> r.store_jobs,
                  dbcalls |-> r.dbcalls,
                  result |-> [total_processed |-> Len(jobs), kept |-> r.kept,
                              ignored |-> r.ignored, filter_config |-> config]]

-----------------------------------------------------------------------------
(* task_generator.py: load_jobs_config *)

\* load_jobs_config: FileNotFoundError for a missing file, JSONDecodeError
\* for a malformed one, else the document
load_jobs_config(file) ==
    IF file.file = "missing"
    THEN [raised |-> TRUE, msg |-> <<"Config file not found: ", "config/jobs_config.json">>,
          config |-> file]
    ELSE IF file.file = "malformed"
    THEN [raised |-> TRUE, msg |-> <<"Expecting value: line 1 column 1 (char 0)">>,
          config |-> file]
    ELSE [raised |-> FALSE, msg |-> <<>>, config |-> file]

-----------------------------------------------------------------------------
(* concurrent_scraper.py: one whole JobSpyScraper.run, as its caller sees it *)

\* ', '.join(self.job_titles) accepts strings only
JoinOk(title_list) == \A i \in 1..Len(title_list) : title_list[i].k = "str"

JoinError == <<"sequence item 0: expected str instance, list found">>

\* self.sites = sites or SUPPORTED_SITES.copy()
ScraperSites(site_list) == IF site_list = <<>> THEN SUPPORTED_SITES ELSE site_list

\* scraper_config.py
MIN_THREAD_COUNT == 1
THREAD_RESERVE == 2

\* Python's max of two integers
Max(a, b) == IF a >= b THEN a ELSE b

\* an optional integer argument left at None
NoInt == [given |-> FALSE, v |-> 0]

\* the num_threads property without the floor
NumThreads_NoFloor(max_threads, cpus) ==
    IF max_threads.given
    THEN max_threads.v
    ELSE cpus - THREAD_RESERVE

\* the num_threads property of JobSpyScraper
NumThreads(max_threads, cpus) ==
    IF max_threads.given
    THEN Max(MIN_THREAD_COUNT, max_threads.v)
    ELSE Max(MIN_THREAD_COUNT, cpus - THREAD_RESERVE)

\* JobScrapeTask.run leaving its loop at the first fetch that raises
RECURSIVE RunTask_StopAtError(_, _, _)
RunTask_StopAtError(task, site_list, h) ==
    IF h = <<>> THEN task
    ELSE IF Head(h) = "raise" THEN SiteStep(task, site_list[task.next], Head(h))
    ELSE RunTask_StopAtError(SiteStep(task, site_list[task.next], Head(h)),
                             site_list, Tail(h))

\* JobScrapeTask.run over the outcomes h of its scrape_jobs calls
RECURSIVE RunTask(_, _, _)
RunTask(task, site_list, h) ==
    IF h = <<>> THEN task
    ELSE RunTask(SiteStep(task, site_list[task.next], Head(h)), site_list, Tail(h))

\* what a task can do on a site list: visit every site and return, or
\* raise outside the loop's try, before the first site or after the last
TaskRuns(site_list) ==
    {[h |-> h, state |-> "returned"] : h \in [1..Len(site_list) -> FetchOutcomes]}
    \cup {[h |-> h, state |-> "raised"] : h \in [1..Len(site_list) -> FetchOutcomes]}
    \cup {[h |-> <<>>, state |-> "raised"]}

\* the as_completed loop over the futures in their order of completion
RECURSIVE CollectAll(_, _, _)
CollectAll(r, order, task_list) ==
    IF order = <<>> THEN r
    ELSE CollectAll(Collect(r.pc, r.completed_tasks, r.all_jobs, Head(order),
                            task_list[Head(order)]),
                    Tail(order), task_list)

\* the orders in which n futures can complete
Orders(n) == {o \in [1..n -> 1..n] : \A i, j \in 1..n : o[i] = o[j] => i = j}

\* JobScrapeTask.get_summary
TaskSummary(task, site_list) ==
    [job_title |-> task.job_title,
     total_jobs |-> Len(task.jobs_data),
     site_counts |-> task.site_counts,
     errors |-> task.errors,
     sites_scraped |-> Len(site_list),
     sites_with_results |->
         Cardinality({x \in DOMAIN task.site_counts : task.site_counts[x] > 0})]

\* JobSpyScraper.get_summary
get_summary(title_list, site_list, task_list, r) ==
    [total_jobs |-> Len(r.all_jobs),
     tasks_completed |-> Len(r.completed_tasks),
     tasks_total |-> Len(task_list),
     job_titles |-> title_list,
     sites |-> site_list,
     task_summaries |->
         [i \in 1..Len(r.completed_tasks) |->
             TaskSummary(task_list[r.completed_tasks[i]], site_list)]]

\* the scraper after run: tasks built from the titles, each run as runs
\* says, their futures collected in the given order
RunScraper(title_list, site_list, runs, order) ==
    LET task_list == [t \in 1..Len(title_list) |->
                         [RunTask(NewTask(title_list[t].s), site_list, runs[t].h)
                             EXCEPT !.state = runs[t].state]]
        r == CollectAll([pc |-> "collecting", completed_tasks |-> <<>>, all_jobs |-> <<>>],
                        order, task_list)
    IN  [all_jobs |-> r.all_jobs,
         summary |-> get_summary(title_list, site_list, task_list, r),
         fetches |-> IF Len(title_list) = 0 THEN 0
                     ELSE Cardinality({<<t, i>> \in (1..Len(title_list)) \X (1..Len(site_list)) :
                                          i <= Len(runs[t].h)})]

-----------------------------------------------------------------------------
(* data_processor.py: get_job_statistics *)

\* companies[company] = companies.get(company, 0) + 1 on a dict kept as the
\* list of its items, in insertion order
CountOne(items, key) ==
    IF \E j \in 1..Len(items) : items[j].key = key
    THEN [j \in 1..Len(items) |->
             IF items[j].key = key THEN [items[j] EXCEPT !.count = @ + 1] ELSE items[j]]
    ELSE Append(items, [key |-> key, count |-> 1])

\* the loop that counts the records by a field, absent keys as 'Unknown'
RECURSIVE CountFrom(_, _, _, _)
CountFrom(jobs, i, field, items) ==
    IF i > Len(jobs) THEN items
    ELSE CountFrom(jobs, i + 1, field,
                   CountOne(items, Get(jobs[i], field, Txt(<<"Unknown">>))))

\* the slice [:10] of the sorted items
TOP_N == 10

\* an item put behind the items whose count is not smaller
InsertByCount(sorted, x) ==
    LET n == Cardinality({j \in 1..Len(sorted) : sorted[j].count >= x.count})
    IN  SubSeq(sorted, 1, n) \o <<x>> \o SubSeq(sorted, n + 1, Len(sorted))

\* an item put before the items whose count is not larger
InsertByCount_TiesFirst(sorted, x) ==
    LET n == Cardinality({j \in 1..Len(sorted) : sorted[j].count > x.count})
    IN  SubSeq(sorted, 1, n) \o <<x>> \o SubSeq(sorted, n + 1, Len(sorted))

\* a sort by count that reverses the items of equal count
RECURSIVE SortedByCount_TiesReversed(_)
SortedByCount_TiesReversed(items) ==
    IF items = <<>> THEN <<>>
    ELSE InsertByCount_TiesFirst(SortedByCount_TiesReversed(SubSeq(items, 1, Len(items) - 1)),
                                 items[Len(items)])

\* sorted(items, key=lambda x: x[1], reverse=True): by descending count,
\* items of equal count in their order in items (the sort is stable)
RECURSIVE SortedByCount(_)
SortedByCount(items) ==
    IF items = <<>> THEN <<>>
    ELSE InsertByCount(SortedByCount(SubSeq(items, 1, Len(items) - 1)),
                       items[Len(items)])

Top(items) ==
    LET sorted == SortedByCount(items)
    IN  SubSeq(sorted, 1, IF Len(sorted) < TOP_N THEN Len(sorted) ELSE TOP_N)

get_job_statistics(jobs) ==
    IF jobs = <<>> THEN [total |-> 0]
    ELSE LET companies == CountFrom(jobs, 1, "company", <<>>)
             locations == CountFrom(jobs, 1, "location", <<>>)
         IN  [total |-> Len(jobs),
              unique_companies |-> Len(companies),
              unique_locations |-> Len(locations),
              with_compensation |->
                  Cardinality({i \in 1..Len(jobs) :
                                  Truthy(Get(jobs[i], "compensation", None))}),
              top_companies |-> Top(companies),
              top_locations |-> Top(locations)]

-----------------------------------------------------------------------------
(* scraping_service.py: execute_full_scraping_workflow *)

\* an optional argument: left at None, or given
NoArg == [given |-> FALSE, v |-> <<>>]
Arg(v) == [given |-> TRUE, v |-> v]

NoCall == [job_titles |-> NoArg, sites |-> NoArg, save_to_database |-> TRUE]

NewResults == [success |-> FALSE, steps |-> EmptyDict, errors |-> <<>>]

\* no scraper has run yet
NoRuns == [runs |-> <<>>, order |-> <<>>]

\* an exception a call of the workflow raised: where, its str(e), and the
\* handler that caught it
Fault(stage, msg, handler) == [stage |-> stage, msg |-> msg, handler |-> handler]

\* the handler around the whole workflow with the exception re-raised
OuterExcept_Reraise(res, msg) == [pc |-> "raised", results |-> res]

\* a handler that returns a fresh result holding the errors only
OuterExcept_DropSteps(res, msg) ==
    [pc |-> "returned", results |-> [res EXCEPT !.steps = EmptyDict, !.errors = Append(@, msg)]]

\* except Exception as e: results['errors'].append(str(e)), then return results
OuterExcept(res, msg) ==
    [pc |-> "returned", results |-> [res EXCEPT !.errors = Append(@, msg)]]

\* the local handler without the append to results['errors']
StoreExcept_Silent(res, msg) == res

\* the handler around add_job: results['errors'].append(f"Store error: {e}")
StoreExcept(res, msg) == [res EXCEPT !.errors = Append(@, <<"Store error: ">> \o msg)]

\* a step that is not recorded
SetStep_Forget(res, name, entry) == res

\* results['steps'][name] = entry
SetStep(res, name, entry) == [res EXCEPT !.steps = Put(@, name, entry)]

-----------------------------------------------------------------------------
(* Inputs of the data processor *)

\* marks a key the posting does not have
Missing == [k |-> "missing", s |-> <<>>, n |-> 0]

\* the dictionary with the keys of r that are not marked Missing
Dict(r) == [f \in {g \in DOMAIN r : r[g] # Missing} |-> r[f]]

\* a raw posting with every key absent
EmptyPosting == Dict([title |-> Missing])

TitleInputs == {None, Txt(<<>>), Txt(<<"a">>), Txt(<<" ", "A">>), Txt(NoneText)}

\* every title with a company and a location; a missing company; a blank or
\* null location
ProcPostings ==
    {Dict([title |-> t, company |-> Txt(<<"b">>), location |-> Txt(<<"c">>)]) :
        t \in TitleInputs}
    \cup
    {Dict([title |-> t, company |-> Missing, location |-> Txt(<<"c">>)]) :
        t \in {Txt(<<>>), Txt(<<"a">>)}}
    \cup
    {Dict([title |-> t, company |-> Txt(<<"b">>), location |-> l]) :
        t \in {None, Txt(<<"a">>), Txt(<<" ", "A">>)}, l \in {None, Txt(<<" ">>)}}

SeqsUpTo(S, n) == UNION {[1..m -> S] : m \in 0..n}

AmountInputs   == {Missing, None, Num(0), Num(7), Num(1500), Txt(<<"x">>), Txt(<<"4">>)}
CurrencyInputs == {Missing, None, Txt(<<"E">>)}
IntervalInputs == {Missing, None, Txt(<<>>), Txt(<<"y">>)}
CompInputs     == {Missing, None, Txt(<<" ">>), Txt(<<"$", "9">>)}

CleanPostings ==
    {Dict([title |-> Txt(<<"a">>), min_amount |-> lo, max_amount |-> hi,
           currency |-> cur, interval |-> iv, compensation |-> comp]) :
        lo \in AmountInputs, hi \in AmountInputs, cur \in CurrencyInputs,
        iv \in IntervalInputs, comp \in CompInputs}

Running == {t \in DOMAIN tasks : tasks[t].state = "running"}
\* futures yielded as soon as their task has started
Finished_Started ==
    {t \in DOMAIN tasks : tasks[t].state \in {"running", "returned", "raised"}}

Finished == {t \in DOMAIN tasks : tasks[t].state \in {"returned", "raised"}}

PoolIdle ==
    /\ s_pc = "idle" /\ sites = <<>> /\ num_threads = 1 /\ tasks = <<>>
    /\ collected = {} /\ completed_tasks = <<>> /\ all_jobs = <<>> /\ fetched = <<>>

ProcIdle ==
    /\ p_pc = "idle" /\ raw_jobs = <<>> /\ unique_jobs = <<>>
    /\ again_jobs = <<>> /\ db_ready_jobs = <<>>

FilterIdle ==
    /\ f_pc = "idle" /\ f_job = EmptyPosting
    /\ filter_config = [job_titles |-> <<>>, description_keywords |-> <<>>]
    /\ f_title_ok = TRUE /\ f_keyword_ok = TRUE /\ f_keep = TRUE

CleanIdle == c_pc = "idle" /\ c_job = EmptyPosting /\ c_cleaned = clean_job_data(EmptyPosting)

ThreadsIdle ==
    /\ t_pc = "idle" /\ t_max_threads = NoInt /\ t_cpu_count = 1 /\ t_num_threads = 1

MarkIdle ==
    /\ m_pc = "idle" /\ m_job_ids = <<>> /\ m_before = <<>> /\ m_first = <<>>
    /\ m_returned = <<>>

PartIdle ==
    /\ k_pc = "idle" /\ k_jobs = <<>>
    /\ k_config = [job_titles |-> <<>>, description_keywords |-> <<>>]
    /\ k_result = [kept |-> <<>>, ignored |-> <<>>]

StatsIdle == g_pc = "idle" /\ g_jobs = <<>> /\ g_stats = [total |-> 0]

\* no persistence operation was called
NoOp == [op |-> "none", raised |-> FALSE]

StoreIdle == d_pc = "idle" /\ d_deleted = {} /\ d_last = NoOp

AddIdle ==
    /\ a_pc = "idle" /\ a_job_data = EmptyPosting /\ a_create_statuses = TRUE
    /\ a_before = NoPending /\ a_jobs = <<>> /\ a_status = {}
    /\ a_session = "none" /\ a_pending = NoPending /\ a_exc = <<>>

TermIdle ==
    /\ b_pc = "idle" /\ b_site = "indeed" /\ b_hours_old = 0 /\ b_location = None
    /\ b_task_args = BaseArgs(<<>>, "indeed", 0, None)
    /\ b_single_args = BaseArgs(<<>>, "indeed", 0, None)

\* the two runs that may be in progress at once
Runs == {1, 2}

ConcIdle ==
    /\ x_pc = [r \in Runs |-> "idle"] /\ x_jobs = [r \in Runs |-> <<>>]
    /\ x_i = [r \in Runs |-> 1] /\ x_job_ids = [r \in Runs |-> <<>>]
    /\ x_stored = [r \in Runs |-> 0] /\ x_skipped = [r \in Runs |-> 0]
    /\ x_store = <<>> /\ x_status = {}

\* the most jobs start_scraping creates, and the most steps of the clock
MaxScrapes == 2
MaxTicks == 4

\* the seconds after which cleanup_old_jobs removes a finished job
MAX_JOB_AGE == 3600

ScrapeIds == 1..MaxScrapes

\* the workflow was not called, or did not return
NoResult == [given |-> FALSE, v |-> NewResults]

NotCalled == [raised |-> FALSE, msg |-> <<>>, results |-> NewResults]

\* the parameters of execute_full_scraping_workflow
WorkflowParams == {"job_titles", "sites", "results_wanted", "hours_old", "save_to_database"}

\* the keyword arguments run_scraping_background passes, in call order
BackgroundKeywords == <<"search_terms", "progress_callback">>

\* str(e) of the TypeError of a call with a keyword the function lacks
UnexpectedKeyword(name) ==
    <<"execute_full_scraping_workflow() got an unexpected keyword argument '", name, "'">>

\* the call of the workflow with these keywords: the binding of the
\* arguments fails, or the workflow runs and returns what it returns
CallWorkflow(keywords, returned) ==
    LET unknown == {k \in 1..Len(keywords) : keywords[k] \notin WorkflowParams}
    IN  IF unknown # {}
        THEN [raised |-> TRUE,
              msg |-> UnexpectedKeyword(keywords[CHOOSE k \in unknown :
                                                     \A l \in unknown : k <= l]),
              results |-> NewResults]
        ELSE [raised |-> FALSE, msg |-> <<>>, results |-> returned]

\* '; '.join(results.get('errors', []))
RECURSIVE JoinErrors(_)
JoinErrors(errors) ==
    IF errors = <<>> THEN <<>>
    ELSE IF Len(errors) = 1 THEN errors[1]
    ELSE errors[1] \o <<"; ">> \o JoinErrors(Tail(errors))

\* the entry start_scraping puts into scrape_jobs
NewScrapeJob(now) ==
    [status |-> "pending", progress |-> "pending", results |-> NoResult,
     error |-> NoArg, start_time |-> now, end_time |-> NoInt]

\* cleanup_old_jobs: the entries that stay
cleanup_old_jobs(jobs, current_time) ==
    LET old == {id \in DOMAIN jobs :
                   /\ jobs[id].end_time.given /\ jobs[id].end_time.v # 0
                   /\ current_time - jobs[id].end_time.v > MAX_JOB_AGE}
    IN  [id \in DOMAIN jobs \ old |-> jobs[id]]

\* lines 43-48 after the workflow returned, lines 50-52 after it raised
SettleJob(job, call) ==
    IF call.raised
    THEN [job EXCEPT !.status = "failed", !.error = Arg(call.msg)]
    ELSE IF call.results.success
    THEN [job EXCEPT !.results = Arg(call.results), !.status = "completed"]
    ELSE [job EXCEPT !.results = Arg(call.results), !.status = "failed",
                     !.error = Arg(JoinErrors(call.results.errors))]

ScrapeIdle ==
    /\ scrape_jobs = EmptyDict /\ j_pc = [j \in ScrapeIds |-> "none"]
    /\ j_use_config = [j \in ScrapeIds |-> TRUE]
    /\ j_call = [j \in ScrapeIds |-> NotCalled] /\ j_now = 0

WfIdle ==
    /\ w_pc = "idle" /\ w_args = NoCall /\ w_config = NoConfig
    /\ results = NewResults /\ job_titles = <<>> /\ w_sites = <<>>
    /\ w_raw_jobs = <<>> /\ processed_jobs = <<>> /\ w_i = 1 /\ job_ids = <<>>
    /\ stored_count = 0 /\ skipped_count = 0 /\ store_jobs = <<>>
    /\ store_status = {} /\ w_fetches = 0 /\ w_runs = NoRuns /\ w_dbcalls = 0 /\ w_faults = <<>>

-----------------------------------------------------------------------------
(* Specification SpecProcess: the data processor on a list of raw postings *)

ProcInit ==
    /\ p_pc = "raw"
    /\ raw_jobs \in SeqsUpTo(ProcPostings, MaxJobs)
    /\ unique_jobs = <<>> /\ again_jobs = <<>> /\ db_ready_jobs = <<>>
    /\ CleanIdle /\ FilterIdle /\ PoolIdle /\ WfIdle /\ ThreadsIdle /\ MarkIdle /\ PartIdle /\ StatsIdle /\ StoreIdle /\ AddIdle /\ TermIdle /\ ConcIdle /\ ScrapeIdle

\* deduplicate_jobs(raw_jobs)
Deduplicate ==
    /\ p_pc = "raw"
    /\ unique_jobs' = deduplicate_jobs(raw_jobs)
    /\ p_pc' = "deduped"
    /\ UNCHANGED <<raw_jobs, again_jobs, db_ready_jobs, c_vars, f_vars, s_vars, w_vars, t_vars, m_vars, k_vars, g_vars, d_vars, a_vars, b_vars, x_vars, j_vars>>

\* deduplicate_jobs applied to the list it returned
DeduplicateAgain ==
    /\ p_pc = "deduped"
    /\ again_jobs' = deduplicate_jobs(unique_jobs)
    /\ p_pc' = "rededuped"
    /\ UNCHANGED <<raw_jobs, unique_jobs, db_ready_jobs, c_vars, f_vars, s_vars, w_vars, t_vars, m_vars, k_vars, g_vars, d_vars, a_vars, b_vars, x_vars, j_vars>>

\* process_scraped_jobs(raw_jobs)
ProcessScrapedJobs ==
    /\ p_pc = "raw"
    /\ db_ready_jobs' = process_scraped_jobs(raw_jobs)
    /\ p_pc' = "processed"
    /\ UNCHANGED <<raw_jobs, unique_jobs, again_jobs, c_vars, f_vars, s_vars, w_vars, t_vars, m_vars, k_vars, g_vars, d_vars, a_vars, b_vars, x_vars, j_vars>>

ProcNext == Deduplicate \/ DeduplicateAgain \/ ProcessScrapedJobs

SpecProcess == ProcInit /\ [][ProcNext]_vars

-----------------------------------------------------------------------------
(* Specification SpecClean: clean_job_data on one raw posting *)

CleanInit ==
    /\ c_pc = "raw"
    /\ c_job \in CleanPostings
    /\ c_cleaned = clean_job_data(EmptyPosting)
    /\ ProcIdle /\ FilterIdle /\ PoolIdle /\ WfIdle /\ ThreadsIdle /\ MarkIdle /\ PartIdle /\ StatsIdle /\ StoreIdle /\ AddIdle /\ TermIdle /\ ConcIdle /\ ScrapeIdle

\* clean_job_data(c_job)
CleanJobData ==
    /\ c_pc = "raw"
    /\ c_cleaned' = clean_job_data(c_job)
    /\ c_pc' = "cleaned"
    /\ UNCHANGED <<c_job, p_vars, f_vars, s_vars, w_vars, t_vars, m_vars, k_vars, g_vars, d_vars, a_vars, b_vars, x_vars, j_vars>>

CleanNext == CleanJobData

SpecClean == CleanInit /\ [][CleanNext]_vars

-----------------------------------------------------------------------------
(* Claims about the data processor *)

KeyComplete(job) == DedupKey(job)[1] # <<>> /\ DedupKey(job)[2] # <<>>

\* the indices of L holding the first posting of a key with title and company
FirstOfKey(L) ==
    {i \in 1..Len(L) :
        /\ KeyComplete(L[i])
        /\ \A j \in 1..(i - 1) : DedupKey(L[j]) # DedupKey(L[i])}

\* the subsequence of L at the indices I, in the order of L
RECURSIVE AtIndices(_, _, _)
AtIndices(L, I, i) ==
    IF i > Len(L) THEN <<>>
    ELSE (IF i \in I THEN <<L[i]>> ELSE <<>>) \o AtIndices(L, I, i + 1)

\* C1: deduplicate_jobs returns the input's subsequence made of exactly the
\* first posting of every DedupKey whose title and company are non-empty, in
\* input order, and no two postings of the output share a DedupKey.
C1_DedupFirstSeen ==
    p_pc \in {"deduped", "rededuped"} =>
        /\ unique_jobs = AtIndices(raw_jobs, FirstOfKey(raw_jobs), 1)
        /\ \A i, j \in 1..Len(unique_jobs) :
               i # j => DedupKey(unique_jobs[i]) # DedupKey(unique_jobs[j])

\* a later posting that differs from an earlier one only in case and spacing
\* was dropped, a posting without title or company was dropped, one was kept
C1_Witness ==
    /\ p_pc = "deduped"
    /\ Len(raw_jobs) = 3 /\ Len(unique_jobs) = 1
    /\ \E i, j \in 1..3 :
           /\ i < j /\ raw_jobs[i] # raw_jobs[j]
           /\ DedupKey(raw_jobs[i]) = DedupKey(raw_jobs[j])
           /\ unique_jobs[1] = raw_jobs[i]
    /\ \E i \in 1..3 : ~KeyComplete(raw_jobs[i])

\* C2: deduplicating the output of deduplicate_jobs changes nothing: the same
\* postings in the same order.
C2_DedupIdempotent ==
    p_pc = "rededuped" => again_jobs = unique_jobs

\* the second pass ran on a list from which the first pass had dropped postings
C2_Witness ==
    /\ p_pc = "rededuped"
    /\ Len(unique_jobs) = 2 /\ Len(raw_jobs) = 3
    /\ again_jobs = unique_jobs

TextOf(v) == v.s

\* C9: every record process_scraped_jobs returns has a non-empty title,
\* company and location after trimming, and the records returned are one per
\* deduplicated posting whose three cleaned fields are non-empty: the others
\* are dropped.
C9_ProcessedValid ==
    p_pc = "processed" =>
        /\ \A i \in 1..Len(db_ready_jobs) :
               /\ db_ready_jobs[i].title.k = "str"
               /\ db_ready_jobs[i].company.k = "str"
               /\ db_ready_jobs[i].location.k = "str"
               /\ Strip(TextOf(db_ready_jobs[i].title)) # <<>>
               /\ Strip(TextOf(db_ready_jobs[i].company)) # <<>>
               /\ Strip(TextOf(db_ready_jobs[i].location)) # <<>>
        /\ LET kept == deduplicate_jobs(raw_jobs)
           IN  Len(db_ready_jobs) =
                   Cardinality({i \in 1..Len(kept) :
                       /\ CleanField(kept[i], "title") # <<>>
                       /\ CleanField(kept[i], "company") # <<>>
                       /\ CleanField(kept[i], "location") # <<>>})

\* a posting with a null title and a blank location passed the deduplication
\* and was dropped by the validation, one without company was dropped before,
\* and a valid one was returned
C9_Witness ==
    /\ p_pc = "processed"
    /\ Len(raw_jobs) = 3
    /\ Len(db_ready_jobs) = 1
    /\ Len(deduplicate_jobs(raw_jobs)) = 2
    /\ \E i \in 1..3 : Get(raw_jobs[i], "title", Missing) = None
    /\ \E i \in 1..3 : "company" \notin DOMAIN raw_jobs[i]
    /\ \E i \in 1..3 : Get(raw_jobs[i], "location", Missing) = Txt(<<" ">>)

-----------------------------------------------------------------------------
(* Claims about clean_job_data *)

\* an amount the posting carries: a number, whatever its value
AmountPresent(v) == v.k = "num"
AmountAbsent(v)  == v.k = "none"

\* C10: for a posting without a compensation string, both bounds present
\* (any numeric value) give "{currency}{min} - {currency}{max} {interval}",
\* exactly one bound present gives the single-bound form of that bound, and
\* no bound present gives an empty compensation.
C10_CompensationSynthesis ==
    LET lo  == Get(c_job, "min_amount", None)
        hi  == Get(c_job, "max_amount", None)
        cur == Str(Get(c_job, "currency", Txt(<<"$">>)))
        iv  == Get(c_job, "interval", Txt(<<>>))
        suffix == IF Truthy(iv) THEN <<" ">> \o Str(iv) ELSE <<>>
        got == TextOf(c_cleaned.compensation)
    IN  (/\ c_pc = "cleaned"
         /\ CleanField(c_job, "compensation") = <<>>
         /\ AmountPresent(lo) \/ AmountAbsent(lo)
         /\ AmountPresent(hi) \/ AmountAbsent(hi)) =>
            /\ (AmountPresent(lo) /\ AmountPresent(hi)) =>
                   got = cur \o Fmt(lo.n) \o <<" ", "-", " ">> \o cur \o Fmt(hi.n) \o suffix
            /\ (AmountPresent(lo) /\ AmountAbsent(hi)) => got = cur \o Fmt(lo.n) \o suffix
            /\ (AmountAbsent(lo) /\ AmountPresent(hi)) => got = cur \o Fmt(hi.n) \o suffix
            /\ (AmountAbsent(lo) /\ AmountAbsent(hi)) => got = <<>>

-----------------------------------------------------------------------------
(* Specification SpecFilter: the filter engine on one record *)

PatA == <<"a">>
PatB == <<"B">>

GroupInputs == {<<>>, <<PatA>>, <<PatB>>, <<PatA, PatB>>}

\* nested lists (lists of groups), and flat lists of pattern strings
NestedInputs == {[i \in 1..Len(gs) |-> PatGroup(gs[i])] : gs \in SeqsUpTo(GroupInputs, MaxGroups)}
FlatInputs   == {[i \in 1..Len(g) |-> PatStr(g[i])] : g \in GroupInputs}

FilterListInputs == NestedInputs \cup FlatInputs

FilterJobs ==
    {Dict([title |-> t, description |-> d]) :
        t \in {None, Txt(<<"A", "b">>), Txt(<<"b">>)},
        d \in {Missing, Txt(<<"a">>), Txt(<<"c", "b">>)}}

FilterInit ==
    /\ f_pc = "ready"
    /\ f_job \in FilterJobs
    /\ filter_config \in [job_titles : FilterListInputs,
                          description_keywords : FilterListInputs]
    /\ f_title_ok = TRUE /\ f_keyword_ok = TRUE /\ f_keep = TRUE
    /\ ProcIdle /\ CleanIdle /\ PoolIdle /\ WfIdle /\ ThreadsIdle /\ MarkIdle /\ PartIdle /\ StatsIdle /\ StoreIdle /\ AddIdle /\ TermIdle /\ ConcIdle /\ ScrapeIdle

\* apply_title_filter, apply_keyword_filter and apply_filters on f_job
ApplyFilters ==
    /\ f_pc = "ready"
    /\ f_title_ok' = apply_title_filter(f_job, filter_config.job_titles)
    /\ f_keyword_ok' = apply_keyword_filter(f_job, filter_config.description_keywords)
    /\ f_keep' = apply_filters(f_job, filter_config)
    /\ f_pc' = "done"
    /\ UNCHANGED <<f_job, filter_config, p_vars, c_vars, s_vars, w_vars, t_vars, m_vars, k_vars, g_vars, d_vars, a_vars, b_vars, x_vars, j_vars>>

FilterNext == ApplyFilters

SpecFilter == FilterInit /\ [][FilterNext]_vars

-----------------------------------------------------------------------------
(* Claims about the filter engine *)

IsNested(list) == \A i \in 1..Len(list) : list[i].k = "list"

\* every non-empty group of the list has a pattern that is a
\* case-insensitive substring of the text
AllGroupsMatch(list, text) ==
    \A i \in 1..Len(list) :
        list[i].g # <<>> =>
            \E j \in 1..Len(list[i].g) : Contains(Lower(list[i].g[j]), Lower(text))

RecordText(job, field) == Str(Get(job, field, Txt(<<>>)))

\* C3: with the filter lists given as lists of groups, apply_title_filter is
\* true iff every non-empty group has a pattern that is a case-insensitive
\* substring of the title, apply_keyword_filter likewise on the description,
\* and apply_filters keeps the record iff both hold (an empty list of groups
\* constrains nothing).
C3_GroupSemantics ==
    (/\ f_pc = "done"
     /\ IsNested(filter_config.job_titles)
     /\ IsNested(filter_config.description_keywords)) =>
        /\ f_title_ok = AllGroupsMatch(filter_config.job_titles, RecordText(f_job, "title"))
        /\ f_keyword_ok = AllGroupsMatch(filter_config.description_keywords,
                                         RecordText(f_job, "description"))
        /\ f_keep = (f_title_ok /\ f_keyword_ok)

\* the title matches the first group only by ignoring case and fails the
\* second group, so the record is rejected although the keywords pass
C3_Witness ==
    /\ f_pc = "done"
    /\ filter_config.job_titles = <<PatGroup(<<PatA, PatB>>), PatGroup(<<PatA>>)>>
    /\ filter_config.description_keywords = <<PatGroup(<<>>), PatGroup(<<PatB>>)>>
    /\ Get(f_job, "title", None) = Txt(<<"b">>)
    /\ Get(f_job, "description", None) = Txt(<<"c", "b">>)
    /\ f_keyword_ok /\ ~f_title_ok /\ ~f_keep

\* C4: with no title groups and no description keyword groups, apply_filters
\* keeps every record.
C4_FilterNoOp ==
    (/\ f_pc = "done"
     /\ filter_config.job_titles = <<>>
     /\ filter_config.description_keywords = <<>>) => f_keep

C4_Witness ==
    /\ f_pc = "done"
    /\ filter_config.job_titles = <<>>
    /\ filter_config.description_keywords = <<>>
    /\ Get(f_job, "title", None) = Txt(<<"A", "b">>)
    /\ "description" \notin DOMAIN f_job
    /\ f_keep

-----------------------------------------------------------------------------
(* Specification SpecPool: JobSpyScraper.run, its workers and its futures *)

\* the search terms of a run: its first tasks' job titles
TermInputs == <<<<"a">>, <<"B">>, <<"c">>, <<"d">>, <<"e">>>>

\* the scraper after __init__ and the submission of every task.run
PoolInit ==
    /\ s_pc = "collecting"
    /\ num_threads \in {1, 2}
    /\ \E n \in 1..(MaxPool - 1), m \in 1..(MaxPool - 1) :
           /\ n + m <= MaxPool
           /\ m <= Len(SUPPORTED_SITES)
           /\ sites = SubSeq(SUPPORTED_SITES, 1, m)
           /\ tasks = [t \in 1..n |-> NewTask(TermInputs[t])]
           /\ fetched = [t \in 1..n |-> <<>>]
    /\ collected = {} /\ completed_tasks = <<>> /\ all_jobs = <<>>
    /\ ProcIdle /\ CleanIdle /\ FilterIdle /\ WfIdle /\ ThreadsIdle /\ MarkIdle /\ PartIdle /\ StatsIdle /\ StoreIdle /\ AddIdle /\ TermIdle /\ ConcIdle /\ ScrapeIdle

\* a free worker takes the oldest queued work item
WorkerStart(t) ==
    /\ s_pc = "collecting"
    /\ tasks[t].state = "queued"
    /\ Cardinality(Running) < num_threads
    /\ \A u \in 1..(t - 1) : tasks[u].state # "queued"
    /\ tasks' = [tasks EXCEPT ![t].state = "running"]
    /\ UNCHANGED <<s_pc, sites, num_threads, collected, completed_tasks, all_jobs, fetched, p_vars, c_vars, f_vars, w_vars, t_vars, m_vars, k_vars, g_vars, d_vars, a_vars, b_vars, x_vars, j_vars>>

\* the worker of task t calls scrape_jobs for the task's next site
WorkerFetch(t) ==
    /\ tasks[t].state = "running"
    /\ tasks[t].next <= Len(sites)
    /\ \E outcome \in FetchOutcomes :
           /\ tasks' = [tasks EXCEPT ![t] = SiteStep(@, sites[tasks[t].next], outcome)]
           /\ fetched' = [fetched EXCEPT ![t] =
                             Append(@, [site |-> sites[tasks[t].next], outcome |-> outcome])]
    /\ UNCHANGED <<s_pc, sites, num_threads, collected, completed_tasks, all_jobs, p_vars, c_vars, f_vars, w_vars, t_vars, m_vars, k_vars, g_vars, d_vars, a_vars, b_vars, x_vars, j_vars>>

\* JobScrapeTask.run returns self
WorkerReturn(t) ==
    /\ tasks[t].state = "running"
    /\ tasks[t].next > Len(sites)
    /\ tasks' = [tasks EXCEPT ![t].state = "returned"]
    /\ UNCHANGED <<s_pc, sites, num_threads, collected, completed_tasks, all_jobs, fetched, p_vars, c_vars, f_vars, w_vars, t_vars, m_vars, k_vars, g_vars, d_vars, a_vars, b_vars, x_vars, j_vars>>

\* an exception escapes JobScrapeTask.run: the future holds it
WorkerRaise(t) ==
    /\ tasks[t].state = "running"
    /\ tasks' = [tasks EXCEPT ![t].state = "raised"]
    /\ UNCHANGED <<s_pc, sites, num_threads, collected, completed_tasks, all_jobs, fetched, p_vars, c_vars, f_vars, w_vars, t_vars, m_vars, k_vars, g_vars, d_vars, a_vars, b_vars, x_vars, j_vars>>

\* as_completed yields a finished future and the loop body handles it
CollectFuture(t) ==
    /\ s_pc = "collecting"
    /\ t \in Finished \ collected
    /\ LET r == Collect(s_pc, completed_tasks, all_jobs, t, tasks[t])
       IN  /\ s_pc' = r.pc
           /\ completed_tasks' = r.completed_tasks
           /\ all_jobs' = r.all_jobs
    /\ collected' = collected \cup {t}
    /\ UNCHANGED <<sites, num_threads, tasks, fetched, p_vars, c_vars, f_vars, w_vars, t_vars, m_vars, k_vars, g_vars, d_vars, a_vars, b_vars, x_vars, j_vars>>

\* an executor shut down without waiting: run returns while futures are
\* pending
RunReturn_NoWait ==
    /\ s_pc = "collecting"
    /\ s_pc' = "returned"
    /\ UNCHANGED <<sites, num_threads, tasks, collected, completed_tasks, all_jobs, fetched, p_vars, c_vars, f_vars, w_vars, t_vars, m_vars, k_vars, g_vars, d_vars, a_vars, b_vars, x_vars, j_vars>>

\* every future was yielded; the executor shuts down and run returns
RunReturn ==
    /\ s_pc = "collecting"
    /\ collected = DOMAIN tasks
    /\ s_pc' = "returned"
    /\ UNCHANGED <<sites, num_threads, tasks, collected, completed_tasks, all_jobs, fetched, p_vars, c_vars, f_vars, w_vars, t_vars, m_vars, k_vars, g_vars, d_vars, a_vars, b_vars, x_vars, j_vars>>

PoolNext ==
    \/ \E t \in DOMAIN tasks :
           \/ WorkerStart(t)
           \/ WorkerFetch(t)
           \/ WorkerReturn(t)
           \/ WorkerRaise(t)
           \/ CollectFuture(t)
    \/ RunReturn

SpecPool == PoolInit /\ [][PoolNext]_vars

-----------------------------------------------------------------------------
(* Claims about the concurrent scraper *)

Range(q) == {q[i] : i \in 1..Len(q)}

\* C5: a task whose run raises does not stop JobSpyScraper.run: run does not
\* raise, and when it has returned every task whose run did return is in
\* completed_tasks, once, and all_jobs holds all of its postings, whatever
\* the interleaving of the workers and the order of completion.
C5_PoolFaultIsolation ==
    /\ s_pc # "raised"
    /\ s_pc = "returned" =>
           \A t \in DOMAIN tasks :
               tasks[t].state = "returned" =>
                   /\ Cardinality({i \in 1..Len(completed_tasks) : completed_tasks[i] = t}) = 1
                   /\ \A i \in 1..Len(tasks[t].jobs_data) :
                          Cardinality({j \in 1..Len(all_jobs) :
                                          all_jobs[j] = tasks[t].jobs_data[i]}) = 1

\* of three tasks the second raised after it had fetched postings; the first
\* and the third completed, the third before the first, with their postings
C5_Witness ==
    /\ s_pc = "returned"
    /\ Len(tasks) = 3
    /\ tasks[2].state = "raised" /\ tasks[2].jobs_data # <<>>
    /\ completed_tasks = <<3, 1>>
    /\ all_jobs = tasks[3].jobs_data \o tasks[1].jobs_data
    /\ tasks[1].jobs_data # <<>> /\ tasks[3].jobs_data # <<>>

\* the postings of the fetches of history h that returned records, in order
RECURSIVE FetchedRecords(_, _)
FetchedRecords(term, h) ==
    IF h = <<>> THEN <<>>
    ELSE (IF Head(h).outcome = "records"
          THEN SourceRecords(term, Head(h).site) ELSE <<>>)
         \o FetchedRecords(term, Tail(h))

\* C6: a failing fetch is recorded in the task's errors under its source and
\* does not abort the task: the sources are fetched in list order, a task
\* that returned has fetched every source of its list, and jobs_data holds
\* the postings of every fetch that returned records, before or after the
\* failure.
C6_SourceFailureIsolation ==
    \A t \in DOMAIN tasks :
        LET h == fetched[t]
        IN  /\ Len(h) <= Len(sites)
            /\ \A i \in 1..Len(h) :
                   /\ h[i].site = sites[i]
                   /\ h[i].outcome = "raise" =>
                          /\ h[i].site \in DOMAIN tasks[t].errors
                          /\ tasks[t].errors[h[i].site] = FetchError(h[i].site)
            /\ tasks[t].state = "returned" => Len(h) = Len(sites)
            /\ tasks[t].jobs_data = FetchedRecords(tasks[t].job_title, h)

\* a task fetched postings from its first source, failed on the second,
\* fetched postings from the third and returned
C6_Witness ==
    /\ Len(sites) = 3
    /\ tasks[1].state = "returned"
    /\ fetched[1] = <<[site |-> sites[1], outcome |-> "records"],
                      [site |-> sites[2], outcome |-> "raise"],
                      [site |-> sites[3], outcome |-> "records"]>>
    /\ DOMAIN tasks[1].errors = {sites[2]}
    /\ Len(tasks[1].jobs_data) = 3

-----------------------------------------------------------------------------
(* Specification SpecWorkflow: one call of execute_full_scraping_workflow *)

\* the caller's job_titles: None, no title, one title, two titles
TitleArgs ==
    {NoArg, Arg(<<>>), Arg(<<PatStr(TermInputs[1])>>),
     Arg(<<PatStr(TermInputs[1]), PatStr(TermInputs[2])>>)}

\* the caller's sites: the first supported sites, or glassdoor (whose
\* postings lack a location) and then the first supported sites
SiteArgs ==
    {Arg(SubSeq(SUPPORTED_SITES, 1, m)) : m \in 1..(MaxPool - 2)}
    \cup {Arg(<<"glassdoor">> \o SubSeq(SUPPORTED_SITES, 1, m - 1)) : m \in 1..(MaxPool - 2)}

\* the configuration file
ConfigInputs ==
    {NoConfig, ConfigFile("malformed", <<>>, <<>>, <<>>)}
    \cup {ConfigFile("ok", st, jt, dk) :
            st \in {<<>>, <<TermInputs[1]>>},
            jt \in {<<>>, <<PatStr(TermInputs[1])>>, <<PatGroup(<<TermInputs[1]>>)>>},
            dk \in {<<>>, <<PatStr(<<"z">>)>>}}

\* the jobs table before the run: empty, or holding what an earlier run
\* stored for the first search term
StoreInputs == {<<>>, process_scraped_jobs(SourceRecords(TermInputs[1], "indeed"))}

WfInit ==
    /\ w_pc = "called"
    /\ w_args \in [job_titles : TitleArgs, sites : SiteArgs, save_to_database : BOOLEAN]
    /\ Len(w_args.job_titles.v) + Len(w_args.sites.v) < MaxPool
    /\ w_config \in ConfigInputs
    /\ store_jobs \in StoreInputs
    /\ store_status = UNION {StatusRecords(i) : i \in 1..Len(store_jobs)}
    /\ results = NewResults
    /\ job_titles = <<>> /\ w_sites = <<>> /\ w_raw_jobs = <<>>
    /\ processed_jobs = <<>> /\ w_i = 1 /\ job_ids = <<>>
    /\ stored_count = 0 /\ skipped_count = 0
    /\ w_fetches = 0 /\ w_runs = NoRuns /\ w_dbcalls = 0 /\ w_faults = <<>>
    /\ ProcIdle /\ CleanIdle /\ FilterIdle /\ PoolIdle /\ ThreadsIdle /\ MarkIdle /\ PartIdle /\ StatsIdle /\ StoreIdle /\ AddIdle /\ TermIdle /\ ConcIdle /\ ScrapeIdle

\* step 1: the search terms and the sites of the run
WfConfig ==
    /\ w_pc = "called"
    /\ LET loaded == load_jobs_config(w_config)
           titles == IF w_args.job_titles.given THEN w_args.job_titles.v
                     ELSE loaded.config.job_titles
           site_list == IF w_args.sites.given THEN w_args.sites.v ELSE SUPPORTED_SITES
       IN  IF ~w_args.job_titles.given /\ loaded.raised
           THEN /\ w_pc' = OuterExcept(results, loaded.msg).pc
                /\ results' = OuterExcept(results, loaded.msg).results
                /\ w_faults' = Append(w_faults, Fault("config", loaded.msg, "outer"))
                /\ UNCHANGED <<job_titles, w_sites>>
           ELSE IF titles = <<>>
           THEN /\ w_pc' = "returned"
                /\ results' = [results EXCEPT !.errors = Append(@, <<"No job titles provided">>)]
                /\ UNCHANGED <<job_titles, w_sites, w_faults>>
           ELSE /\ w_pc' = "configured"
                /\ job_titles' = titles
                /\ w_sites' = site_list
                /\ results' = SetStep(results, "config",
                                      [job_titles |-> titles, sites |-> site_list])
                /\ UNCHANGED w_faults
    /\ UNCHANGED <<w_args, w_config, w_raw_jobs, processed_jobs, w_i, job_ids,
                   stored_count, skipped_count, store_jobs, store_status,
                   w_fetches, w_runs, w_dbcalls, p_vars, c_vars, f_vars, s_vars, t_vars, m_vars, k_vars, g_vars, d_vars, a_vars, b_vars, x_vars, j_vars>>

\* step 2: JobSpyScraper(...), scraper.run(), scraper.get_summary().  The
\* constructor's os.makedirs can fail, and run's log line joins the titles
WfScrape ==
    /\ w_pc = "configured"
    /\ \/ \E msg \in {<<"Permission denied: 'jobs_data'">>} \cup
                     (IF JoinOk(job_titles) THEN {} ELSE {JoinError}) :
              /\ w_pc' = OuterExcept(results, msg).pc
              /\ results' = OuterExcept(results, msg).results
              /\ w_faults' = Append(w_faults, Fault("scraping", msg, "outer"))
              /\ UNCHANGED <<w_raw_jobs, w_fetches, w_runs>>
       \/ /\ JoinOk(job_titles)
          /\ \E runs \in [1..Len(job_titles) -> TaskRuns(ScraperSites(w_sites))],
                order \in Orders(Len(job_titles)) :
                 LET scraper == RunScraper(job_titles, ScraperSites(w_sites), runs, order)
                     recorded == SetStep(results, "scraping",
                                         [raw_jobs_count |-> Len(scraper.all_jobs),
                                          summary |-> scraper.summary])
                 IN  /\ w_raw_jobs' = scraper.all_jobs
                     /\ w_fetches' = w_fetches + scraper.fetches
                     /\ w_runs' = [runs |-> runs, order |-> order]
                     /\ IF scraper.all_jobs = <<>>
                        THEN /\ results' = [recorded EXCEPT !.success = TRUE]
                             /\ w_pc' = "returned"
                        ELSE /\ results' = recorded
                             /\ w_pc' = "scraped"
                     /\ UNCHANGED w_faults
    /\ UNCHANGED <<w_args, w_config, job_titles, w_sites, processed_jobs, w_i, job_ids,
                   stored_count, skipped_count, store_jobs, store_status,
                   w_dbcalls, p_vars, c_vars, f_vars, s_vars, t_vars, m_vars, k_vars, g_vars, d_vars, a_vars, b_vars, x_vars, j_vars>>

\* step 3, and the head of step 4: process_scraped_jobs, get_job_statistics,
\* job_ids = [], and the storage step recorded as skipped when it is disabled
WfProcess ==
    /\ w_pc = "scraped"
    /\ LET processed == process_scraped_jobs(w_raw_jobs)
           recorded == SetStep(results, "processing",
                               [processed_count |-> Len(processed),
                                statistics |-> get_job_statistics(processed)])
       IN  /\ processed_jobs' = processed
           /\ IF w_args.save_to_database
              THEN /\ results' = recorded
                   /\ w_pc' = "lookup"
              ELSE /\ results' = SetStep(recorded, "storage", [skipped |-> TRUE])
                   /\ w_pc' = "stored"
    /\ job_ids' = <<>> /\ w_i' = 1 /\ stored_count' = 0 /\ skipped_count' = 0
    /\ UNCHANGED <<w_args, w_config, job_titles, w_sites, w_raw_jobs, store_jobs,
                   store_status, w_fetches, w_runs, w_dbcalls, w_faults,
                   p_vars, c_vars, f_vars, s_vars, t_vars, m_vars, k_vars, g_vars, d_vars, a_vars, b_vars, x_vars, j_vars>>

\* step 4, loop body, first half: get_job_by_criteria for the next record
WfLookup ==
    /\ w_pc = "lookup"
    /\ w_i <= Len(processed_jobs)
    /\ w_dbcalls' = w_dbcalls + 1
    /\ \/ /\ w_pc' = OuterExcept(results, DatabaseError).pc
          /\ results' = OuterExcept(results, DatabaseError).results
          /\ w_faults' = Append(w_faults, Fault("storage", DatabaseError, "outer"))
          /\ UNCHANGED <<w_i, skipped_count>>
       \/ /\ LET job_data == processed_jobs[w_i]
                 existing == get_job_by_criteria(store_jobs, job_data.title,
                                                 job_data.company, job_data.location)
             IN  IF existing # 0
                 THEN /\ skipped_count' = skipped_count + 1
                      /\ w_i' = w_i + 1
                      /\ w_pc' = "lookup"
                 ELSE /\ w_pc' = "create"
                      /\ UNCHANGED <<w_i, skipped_count>>
          /\ UNCHANGED <<results, w_faults>>
    /\ UNCHANGED <<w_args, w_config, job_titles, w_sites, w_raw_jobs, processed_jobs,
                   job_ids, stored_count, store_jobs, store_status, w_fetches, w_runs,
                   p_vars, c_vars, f_vars, s_vars, t_vars, m_vars, k_vars, g_vars, d_vars, a_vars, b_vars, x_vars, j_vars>>

\* step 4, loop body, second half: add_job inside its own try
WfCreate ==
    /\ w_pc = "create"
    /\ \E db_ok \in BOOLEAN :
           LET added == add_job(store_jobs, store_status, processed_jobs[w_i], TRUE, db_ok)
           IN  /\ store_jobs' = added.store_jobs
               /\ store_status' = added.store_status
               /\ w_dbcalls' = w_dbcalls + added.dbcalls
               /\ IF added.raised
                  THEN /\ results' = StoreExcept(results, added.msg)
                       /\ w_faults' = Append(w_faults, Fault("storage", added.msg, "store"))
                       /\ UNCHANGED <<job_ids, stored_count>>
                  ELSE /\ job_ids' = Append(job_ids, added.job_id)
                       /\ stored_count' = stored_count + 1
                       /\ UNCHANGED <<results, w_faults>>
    /\ w_i' = w_i + 1
    /\ w_pc' = "lookup"
    /\ UNCHANGED <<w_args, w_config, job_titles, w_sites, w_raw_jobs, processed_jobs,
                   skipped_count, w_fetches, w_runs, p_vars, c_vars, f_vars, s_vars, t_vars, m_vars, k_vars, g_vars, d_vars, a_vars, b_vars, x_vars, j_vars>>

\* step 4, after the loop: the storage step is recorded
WfStoreEnd ==
    /\ w_pc = "lookup"
    /\ w_i > Len(processed_jobs)
    /\ results' = SetStep(results, "storage",
                          [stored_count |-> stored_count,
                           skipped_count |-> skipped_count,
                           job_ids |-> job_ids])
    /\ w_pc' = "stored"
    /\ UNCHANGED <<w_args, w_config, job_titles, w_sites, w_raw_jobs, processed_jobs,
                   w_i, job_ids, stored_count, skipped_count, store_jobs, store_status,
                   w_fetches, w_runs, w_dbcalls, w_faults, p_vars, c_vars, f_vars, s_vars, t_vars, m_vars, k_vars, g_vars, d_vars, a_vars, b_vars, x_vars, j_vars>>

\* step 5: filter_and_mark_jobs on the new ids, or filter_jobs in memory
WfFilter ==
    /\ w_pc = "stored"
    /\ IF job_ids # <<>>
       THEN \E fail_at \in 0..(Len(job_ids) + 1) :
                LET marked == filter_and_mark_jobs(store_jobs, job_ids, w_config, fail_at)
                IN  /\ store_jobs' = marked.store_jobs
                    /\ w_dbcalls' = w_dbcalls + marked.dbcalls
                    /\ IF marked.raised
                       THEN /\ w_pc' = OuterExcept(results, DatabaseError).pc
                            /\ results' = OuterExcept(results, DatabaseError).results
                            /\ w_faults' = Append(w_faults,
                                                  Fault("filtering", DatabaseError, "outer"))
                       ELSE /\ w_pc' = "returned"
                            /\ results' = [SetStep(results, "filtering", marked.result)
                                              EXCEPT !.success = TRUE]
                            /\ UNCHANGED w_faults
       ELSE LET filter_results == filter_jobs(processed_jobs, load_filter_config(w_config))
            IN  /\ w_pc' = "returned"
                /\ results' = [SetStep(results, "filtering",
                                       [kept |-> Len(filter_results.kept),
                                        ignored |-> Len(filter_results.ignored)])
                                  EXCEPT !.success = TRUE]
                /\ UNCHANGED <<store_jobs, w_dbcalls, w_faults>>
    /\ UNCHANGED <<w_args, w_config, job_titles, w_sites, w_raw_jobs, processed_jobs,
                   w_i, job_ids, stored_count, skipped_count, store_status,
                   w_fetches, w_runs, p_vars, c_vars, f_vars, s_vars, t_vars, m_vars, k_vars, g_vars, d_vars, a_vars, b_vars, x_vars, j_vars>>

WfNext ==
    \/ WfConfig
    \/ WfScrape
    \/ WfProcess
    \/ WfLookup
    \/ WfCreate
    \/ WfStoreEnd
    \/ WfFilter

SpecWorkflow == WfInit /\ [][WfNext]_vars

-----------------------------------------------------------------------------
(* Claims about the workflow orchestrator *)

\* an entry of results['errors'] that carries the message msg
ErrorsCarry(msg) ==
    \E k \in 1..Len(results.errors) :
        \/ results.errors[k] = msg
        \/ results.errors[k] = <<"Store error: ">> \o msg

\* C7 as stated: the call never raises, and once it has returned, every
\* exception raised at a stage by a call the workflow made has its message
\* in errors and success is false.
C7_AnyStageFaultFails ==
    /\ w_pc # "raised"
    /\ w_pc = "returned" =>
           \A i \in 1..Len(w_faults) :
               /\ ErrorsCarry(w_faults[i].msg)
               /\ results.success = FALSE

\* C7, amended: the call never raises.  An exception that reaches the
\* handler around the whole workflow ends the run at once: the call has
\* returned, errors holds str(e) and success is false.  An exception of
\* add_job is caught inside the storage loop: errors holds
\* "Store error: " followed by its message, and nothing is said about
\* success.  errors holds nothing else but the message of the run without
\* job titles.
C7_OrchestratorBoundary ==
    /\ w_pc # "raised"
    /\ \A i \in 1..Len(w_faults) :
           LET fault == w_faults[i]
           IN  /\ fault.handler = "outer" =>
                      /\ i = Len(w_faults)
                      /\ w_pc = "returned"
                      /\ results.success = FALSE
                      /\ results.errors[Len(results.errors)] = fault.msg
               /\ fault.handler = "store" =>
                      \E k \in 1..Len(results.errors) :
                          results.errors[k] = <<"Store error: ">> \o fault.msg
    /\ Len(results.errors) \in {Len(w_faults), Len(w_faults) + 1}
    /\ Len(results.errors) = Len(w_faults) + 1 =>
           /\ results.errors = <<<<"No job titles provided">>>>
           /\ results.success = FALSE

\* a run in which add_job failed for the first record, the second record
\* was stored, and the filter stage then failed on the database
C7_Witness ==
    /\ w_pc = "returned"
    /\ Len(w_faults) = 2
    /\ w_faults[1] = Fault("storage", DatabaseError, "store")
    /\ w_faults[2] = Fault("filtering", DatabaseError, "outer")
    /\ Len(job_ids) = 1
    /\ results.success = FALSE
    /\ results.errors = <<<<"Store error: ">> \o DatabaseError, DatabaseError>>

\* the run has no search term: the caller passed an empty list, or passed
\* none and the configuration has no search_terms
NoSearchTerms ==
    IF w_args.job_titles.given
    THEN w_args.job_titles.v = <<>>
    ELSE w_config.search_terms = <<>>

\* C8: a returned run without search terms has success false and a message
\* in errors, has raised nothing to its caller, has called no source and
\* has made no call to the persistence store.
C8_ZeroTermsShortCircuit ==
    (w_pc \in {"returned", "raised"} /\ NoSearchTerms) =>
        /\ w_pc = "returned"
        /\ results.success = FALSE
        /\ results.errors # <<>>
        /\ w_fetches = 0
        /\ w_dbcalls = 0

-----------------------------------------------------------------------------
(* Specification SpecThreads: a scraper is built and num_threads is read *)

MaxCpu == 8         \* most processors, and the largest override either way

ThreadsInit ==
    /\ t_pc = "built"
    /\ t_max_threads \in {NoInt} \cup {Arg(n) : n \in (0 - MaxCpu)..MaxCpu}
    /\ t_cpu_count \in 1..MaxCpu
    /\ t_num_threads = 1
    /\ ProcIdle /\ CleanIdle /\ FilterIdle /\ PoolIdle /\ WfIdle /\ MarkIdle /\ PartIdle /\ StatsIdle /\ StoreIdle /\ AddIdle /\ TermIdle /\ ConcIdle /\ ScrapeIdle

\* self.num_threads, as run() reads it for max_workers
ReadNumThreads ==
    /\ t_pc = "built"
    /\ t_num_threads' = NumThreads(t_max_threads, t_cpu_count)
    /\ t_pc' = "read"
    /\ UNCHANGED <<t_max_threads, t_cpu_count, p_vars, c_vars, f_vars, s_vars, w_vars, m_vars, k_vars, g_vars, d_vars, a_vars, b_vars, x_vars, j_vars>>

ThreadsNext == ReadNumThreads

SpecThreads == ThreadsInit /\ [][ThreadsNext]_vars

\* C11: the worker count is max(1, available_parallelism - 2) without an
\* override and max(1, max_threads) with one, and is at least 1 for every
\* processor count and every override, zero and negative ones included.
C11_WorkerCountFloor ==
    t_pc = "read" =>
        /\ t_num_threads >= 1
        /\ t_max_threads.given =>
               t_num_threads = (IF t_max_threads.v >= 1 THEN t_max_threads.v ELSE 1)
        /\ ~t_max_threads.given =>
               t_num_threads = (IF t_cpu_count - 2 >= 1 THEN t_cpu_count - 2 ELSE 1)

\* one processor and no override: 1 - 2 is floored to one worker
C11_Witness ==
    /\ t_pc = "read"
    /\ ~t_max_threads.given
    /\ t_cpu_count = 1
    /\ t_num_threads = 1

-----------------------------------------------------------------------------
(* Specification SpecMark: filter_and_mark_jobs called twice *)

MaxRows == 2        \* most rows of the jobs table, and longest id list

\* a row of the jobs table
Row(title, ignore) ==
    [title |-> Txt(title), company |-> Txt(<<"b">>), location |-> Txt(<<"c">>),
     link |-> Txt(<<>>), description |-> Txt(<<>>), compensation |-> Txt(<<>>),
     ignore |-> ignore]

RowInputs == {Row(title, ignore) : title \in {PatA, PatB}, ignore \in {0, 1}}

\* the filter lists of the configuration file
MarkConfigs ==
    {NoConfig}
    \cup {ConfigFile("ok", <<>>, jt, dk) :
            jt \in {<<>>, <<PatStr(PatA)>>, <<PatGroup(<<PatA>>), PatGroup(<<PatB>>)>>},
            dk \in {<<>>, <<PatStr(<<"z">>)>>}}

\* the id lists: ids in increasing order, one of them unknown to the table,
\* and lists that name an id twice
IdLists ==
    {q \in SeqsUpTo(1..(MaxRows + 1), MaxRows + 1) :
        \A i, j \in 1..Len(q) : i < j => q[i] < q[j]}
    \cup {<<id, id>> : id \in 1..(MaxRows + 1)}

MarkInit ==
    /\ m_pc = "ready"
    /\ store_jobs \in SeqsUpTo(RowInputs, MaxRows)
    /\ store_status = UNION {StatusRecords(i) : i \in {j \in 1..Len(store_jobs) :
                                                          store_jobs[j].ignore = 0}}
    /\ m_job_ids \in IdLists
    /\ w_config \in MarkConfigs
    /\ m_before = store_jobs /\ m_first = store_jobs /\ m_returned = <<>>
    /\ w_pc = "idle" /\ w_args = NoCall /\ results = NewResults
    /\ job_titles = <<>> /\ w_sites = <<>> /\ w_raw_jobs = <<>>
    /\ processed_jobs = <<>> /\ w_i = 1 /\ job_ids = <<>>
    /\ stored_count = 0 /\ skipped_count = 0
    /\ w_fetches = 0 /\ w_runs = NoRuns /\ w_dbcalls = 0 /\ w_faults = <<>>
    /\ ProcIdle /\ CleanIdle /\ FilterIdle /\ PoolIdle /\ ThreadsIdle /\ PartIdle /\ StatsIdle /\ StoreIdle /\ AddIdle /\ TermIdle /\ ConcIdle /\ ScrapeIdle

\* one call of filter_and_mark_jobs(m_job_ids); a database operation of it
\* may raise
FilterAndMark ==
    /\ m_pc \in {"ready", "once"}
    /\ \E fail_at \in 0..(Len(m_job_ids) + 1) :
           LET marked == filter_and_mark_jobs(store_jobs, m_job_ids, w_config, fail_at)
           IN  /\ store_jobs' = marked.store_jobs
               /\ w_dbcalls' = w_dbcalls + marked.dbcalls
               /\ m_returned' = Append(m_returned,
                                       [raised |-> marked.raised, result |-> marked.result])
               /\ m_first' = IF m_pc = "ready" THEN marked.store_jobs ELSE m_first
    /\ m_pc' = IF m_pc = "ready" THEN "once" ELSE "twice"
    /\ UNCHANGED <<m_job_ids, m_before, w_pc, w_args, w_config, results, job_titles,
                   w_sites, w_raw_jobs, processed_jobs, w_i, job_ids, stored_count,
                   skipped_count, store_status, w_fetches, w_runs, w_faults,
                   p_vars, c_vars, f_vars, s_vars, t_vars, k_vars, g_vars, d_vars, a_vars, b_vars, x_vars, j_vars>>

MarkNext == FilterAndMark

SpecMark == MarkInit /\ [][MarkNext]_vars

\* C12: after two calls of filter_and_mark_jobs that both returned, with
\* the same ids and an unchanged configuration, the table has the rows it
\* had and every job's ignore flag is what it was after the first call.
C12_MarkIdempotent ==
    (/\ m_pc = "twice"
     /\ ~m_returned[1].raised
     /\ ~m_returned[2].raised) =>
        /\ Len(store_jobs) = Len(m_first)
        /\ \A id \in 1..Len(store_jobs) : store_jobs[id].ignore = m_first[id].ignore

\* two calls that returned, on ids of which one is unknown; the first call
\* flagged one job, kept another and left a job outside the list alone
C12_Witness ==
    /\ m_pc = "twice"
    /\ ~m_returned[1].raised
    /\ ~m_returned[2].raised
    /\ Len(m_before) = 2
    /\ m_job_ids = <<2, 3>>
    /\ m_before[2].ignore = 0
    /\ m_first[2].ignore = 1
    /\ m_returned[1].result.ignored = 1
    /\ m_returned[2].result.ignored = 1
    /\ store_jobs = m_first


-----------------------------------------------------------------------------
(* Specification SpecPartition: filter_jobs on a list of records *)

\* a processed record with a title and a description
PartRecord(title) ==
    [title |-> Txt(title), company |-> Txt(<<"b">>), location |-> Txt(<<"c">>),
     link |-> Txt(<<>>), description |-> Txt(PatA), compensation |-> Txt(<<>>),
     ignore |-> 0]

PartRecords == {PartRecord(title) : title \in {PatA, PatB, PatA \o PatB}}

PartInit ==
    /\ k_pc = "ready"
    /\ k_jobs \in SeqsUpTo(PartRecords, MaxJobs)
    /\ k_config \in [job_titles : FilterListInputs,
                     description_keywords : {<<>>, <<PatStr(PatB)>>}]
    /\ k_result = [kept |-> <<>>, ignored |-> <<>>]
    /\ ProcIdle /\ CleanIdle /\ FilterIdle /\ PoolIdle /\ WfIdle /\ ThreadsIdle /\ MarkIdle /\ StatsIdle /\ StoreIdle /\ AddIdle /\ TermIdle /\ ConcIdle /\ ScrapeIdle

\* filter_jobs(k_jobs, k_config): it assigns neither to the list nor to a
\* record of it
FilterJobsCall ==
    /\ k_pc = "ready"
    /\ k_result' = filter_jobs(k_jobs, k_config)
    /\ k_pc' = "done"
    /\ UNCHANGED <<k_jobs, k_config, p_vars, c_vars, f_vars, s_vars, w_vars, t_vars, m_vars, g_vars, d_vars, a_vars, b_vars, x_vars, j_vars>>

PartNext == FilterJobsCall

SpecPartition == PartInit /\ [][PartNext]_vars

\* C13: 'kept' is the subsequence of the input made of the records for
\* which apply_filters is true and 'ignored' the subsequence of the others,
\* each in input order and with the records as they were handed in; so every
\* position of the input is in exactly one of the two lists.
C13_FilterJobsPartition ==
    k_pc = "done" =>
        LET keep == {i \in 1..Len(k_jobs) : apply_filters(k_jobs[i], k_config)}
        IN  /\ k_result.kept = AtIndices(k_jobs, keep, 1)
            /\ k_result.ignored = AtIndices(k_jobs, (1..Len(k_jobs)) \ keep, 1)
            /\ Len(k_result.kept) + Len(k_result.ignored) = Len(k_jobs)

\* three different records of which the first and the last are kept
C13_Witness ==
    /\ k_pc = "done"
    /\ Len(k_jobs) = 3
    /\ k_jobs[1] # k_jobs[3]
    /\ k_result.kept = <<k_jobs[1], k_jobs[3]>>
    /\ k_result.ignored = <<k_jobs[2]>>


-----------------------------------------------------------------------------
(* Specification SpecRuns: calls of execute_full_scraping_workflow one      *)
(* after the other on the same job store                                    *)

\* the job titles of a call: the first term, the first term in capitals,
\* or the first two terms
RunTitleArgs ==
    {Arg(<<PatStr(TermInputs[1])>>), Arg(<<PatStr(<<"A">>)>>),
     Arg(<<PatStr(TermInputs[1]), PatStr(TermInputs[2])>>)}

\* the configuration file of a call: missing, or with one title filter
RunConfigs == {NoConfig, ConfigFile("ok", <<>>, <<PatStr(TermInputs[1])>>, <<>>)}

\* the locals and the history of a call that has just been made
WfCalled(call, file) ==
    /\ call \in [job_titles : RunTitleArgs, sites : {Arg(<<"indeed">>)},
                 save_to_database : {TRUE}]
    /\ file \in RunConfigs

RunsInit ==
    /\ w_pc = "called"
    /\ WfCalled(w_args, w_config)
    /\ store_jobs = <<>> /\ store_status = {}
    /\ results = NewResults
    /\ job_titles = <<>> /\ w_sites = <<>> /\ w_raw_jobs = <<>>
    /\ processed_jobs = <<>> /\ w_i = 1 /\ job_ids = <<>>
    /\ stored_count = 0 /\ skipped_count = 0
    /\ w_fetches = 0 /\ w_runs = NoRuns /\ w_dbcalls = 0 /\ w_faults = <<>>
    /\ ProcIdle /\ CleanIdle /\ FilterIdle /\ PoolIdle /\ ThreadsIdle /\ MarkIdle /\ PartIdle /\ StatsIdle /\ StoreIdle /\ AddIdle /\ TermIdle /\ ConcIdle /\ ScrapeIdle

\* the previous call has returned and the function is called again: it
\* keeps nothing from one call to the next, the store keeps its rows
WfCallAgain ==
    /\ w_pc = "returned"
    /\ w_pc' = "called"
    /\ WfCalled(w_args', w_config')
    /\ results' = NewResults
    /\ job_titles' = <<>> /\ w_sites' = <<>> /\ w_raw_jobs' = <<>>
    /\ processed_jobs' = <<>> /\ w_i' = 1 /\ job_ids' = <<>>
    /\ stored_count' = 0 /\ skipped_count' = 0
    /\ w_fetches' = 0 /\ w_runs' = NoRuns /\ w_dbcalls' = 0 /\ w_faults' = <<>>
    /\ UNCHANGED <<store_jobs, store_status, p_vars, c_vars, f_vars, s_vars, t_vars,
                   m_vars, k_vars, g_vars, d_vars, a_vars, b_vars, x_vars, j_vars>>

RunsNext ==
    \/ WfConfig
    \/ WfScrape
    \/ WfProcess
    \/ WfLookup
    \/ WfCreate
    \/ WfStoreEnd
    \/ WfFilter
    \/ WfCallAgain

SpecRuns == RunsInit /\ [][RunsNext]_vars

\* the (title, company, location) triple of a row or a record
Triple(job) == <<job.title, job.company, job.location>>

\* C14: through any sequence of runs made one after the other on a store
\* that starts without two jobs of one (title, company, location), the
\* store never holds two jobs of one triple: a record that matches a stored
\* job is not created again.
C14_OneJobPerTriple ==
    \A i, j \in 1..Len(store_jobs) :
        Triple(store_jobs[i]) = Triple(store_jobs[j]) => i = j

\* a run has returned that found one of its two records in the store, put
\* there by an earlier run, skipped it and stored the other
C14_Witness ==
    /\ w_pc = "returned"
    /\ Len(processed_jobs) = 2
    /\ skipped_count = 1
    /\ stored_count = 1
    /\ job_ids = <<2>>
    /\ Len(store_jobs) = 2
    /\ Triple(store_jobs[1]) = Triple(processed_jobs[1])


-----------------------------------------------------------------------------
(* Claims about the storage stage *)

\* C15: when the lookup or the create of a record has failed, the returned
\* run has the failure's message in errors and has gone on through every
\* record after the failing one: the storage loop stopped at the last
\* record or beyond it.
C15_StorageFailuresPerRecord ==
    (/\ w_pc = "returned"
     /\ \E i \in 1..Len(w_faults) : w_faults[i].stage = "storage") =>
        /\ \A i \in 1..Len(w_faults) :
               w_faults[i].stage = "storage" => ErrorsCarry(w_faults[i].msg)
        /\ w_i >= Len(processed_jobs)


-----------------------------------------------------------------------------
(* Claims about source errors in a workflow run *)

\* the postings of the fetches of h that returned records, in site order
RECURSIVE RecordsOf(_, _, _, _)
RecordsOf(term, site_list, h, i) ==
    IF i > Len(h) THEN <<>>
    ELSE (IF h[i] = "records" THEN SourceRecords(term, site_list[i]) ELSE <<>>)
         \o RecordsOf(term, site_list, h, i + 1)

\* the postings of the tasks, in the order in which their futures completed
RECURSIVE RawOf(_, _, _, _, _)
RawOf(title_list, site_list, runs, order, k) ==
    IF k > Len(order) THEN <<>>
    ELSE RecordsOf(title_list[order[k]].s, site_list, runs[order[k]].h, 1)
         \o RawOf(title_list, site_list, runs, order, k + 1)

\* C16: a returned run in which every task returned, no call of the
\* workflow raised and at least one source fetch failed has success true;
\* every failed fetch is in the errors map of its task's summary; the raw
\* postings are those of the fetches that returned records, and they are
\* processed as process_scraped_jobs processes them.
C16_SourceErrorsNeverFail ==
    LET runs == w_runs.runs
        site_list == ScraperSites(w_sites)
        failed == {x \in (DOMAIN runs) \X (1..Len(site_list)) : runs[x[1]].h[x[2]] = "raise"}
        summaries == results.steps["scraping"].summary.task_summaries
    IN  (/\ w_pc = "returned"
         /\ w_faults = <<>>
         /\ \A t \in DOMAIN runs : runs[t].state = "returned"
         /\ failed # {}) =>
            /\ results.success = TRUE
            /\ results.errors = <<>>
            /\ \A x \in failed :
                   \E k \in 1..Len(summaries) :
                       /\ summaries[k].job_title = job_titles[x[1]].s
                       /\ site_list[x[2]] \in DOMAIN summaries[k].errors
                       /\ summaries[k].errors[site_list[x[2]]] = FetchError(site_list[x[2]])
            /\ w_raw_jobs = RawOf(job_titles, site_list, runs, w_runs.order, 1)
            /\ results.steps["scraping"].raw_jobs_count = Len(w_raw_jobs)
            /\ w_raw_jobs # <<>> =>
                   /\ processed_jobs = process_scraped_jobs(w_raw_jobs)
                   /\ results.steps["processing"].processed_count = Len(processed_jobs)

\* one task on two sites: the first fetch failed, the second returned a
\* posting, which was processed; the run returned success
C16_Witness ==
    /\ w_pc = "returned"
    /\ w_faults = <<>>
    /\ Len(job_titles) = 1
    /\ Len(w_sites) = 2
    /\ w_runs.runs[1] = [h |-> <<"raise", "records">>, state |-> "returned"]
    /\ Len(w_raw_jobs) = 1
    /\ Len(processed_jobs) = 1
    /\ results.success = TRUE


-----------------------------------------------------------------------------
(* Claims about the stages of a workflow run *)

Stages == <<"config", "scraping", "processing", "storage", "filtering">>

\* the first n stages
StagePrefix(n) == {Stages[i] : i \in 1..n}

\* the call went past step 1 and no exception reached the outer handler
RanUnhindered ==
    /\ w_pc = "returned"
    /\ job_titles # <<>>
    /\ \A i \in 1..Len(w_faults) : w_faults[i].handler # "outer"

\* C17 as stated: a returned run with at least one search term and no
\* fault has success true and a step entry for each of the five stages.
C17_FiveStagesAlways ==
    (w_pc = "returned" /\ job_titles # <<>> /\ w_faults = <<>>) =>
        /\ results.success = TRUE
        /\ DOMAIN results.steps = StagePrefix(5)

\* C17, amended: the recorded steps are always the first stages in the
\* order config, scraping, processing, storage, filtering, and a run is in
\* a stage only when exactly the stages before it are recorded.  A run
\* with a search term that no exception stopped returns success true with
\* all five steps when something was scraped, and success true with the
\* config and scraping steps only when nothing was.
C17_StageSequence ==
    /\ w_pc = "called" => DOMAIN results.steps = StagePrefix(0)
    /\ w_pc = "configured" => DOMAIN results.steps = StagePrefix(1)
    /\ w_pc = "scraped" => DOMAIN results.steps = StagePrefix(2)
    /\ w_pc \in {"lookup", "create"} => DOMAIN results.steps = StagePrefix(3)
    /\ w_pc = "stored" => DOMAIN results.steps = StagePrefix(4)
    /\ w_pc = "returned" => \E n \in 0..5 : DOMAIN results.steps = StagePrefix(n)
    /\ RanUnhindered =>
           /\ results.success = TRUE
           /\ DOMAIN results.steps =
                  IF w_raw_jobs = <<>> THEN StagePrefix(2) ELSE StagePrefix(5)

\* a run that scraped, processed, stored a job and filtered
C17_Witness ==
    /\ RanUnhindered
    /\ w_faults = <<>>
    /\ w_args.save_to_database
    /\ stored_count = 1
    /\ results.success = TRUE
    /\ DOMAIN results.steps = StagePrefix(5)
    /\ results.steps["storage"].stored_count = 1
    /\ results.steps["filtering"].total_processed = 1


-----------------------------------------------------------------------------
(* Claims about failed tasks, the order of the fetches and empty results *)

\* what the orchestrator gets from the scraper after run: get_summary
PoolSummary ==
    get_summary([t \in DOMAIN tasks |-> tasks[t].job_title], sites, tasks,
                [completed_tasks |-> completed_tasks, all_jobs |-> all_jobs])

\* C18: after JobSpyScraper.run has returned, the scraper's summary has an
\* entry for every task whose run raised, as it has for the completed ones.
C18_TaskFailureRecorded ==
    s_pc = "returned" =>
        \A t \in DOMAIN tasks :
            tasks[t].state = "raised" =>
                \E k \in 1..Len(PoolSummary.task_summaries) :
                    PoolSummary.task_summaries[k].job_title = tasks[t].job_title

\* the sites of the fetches of history h, in order
FetchedSites(h) == [i \in 1..Len(h) |-> h[i].site]

\* what one step may do to task t: it is started once and never queued
\* again, a finished task is left alone, and its history grows only while
\* it runs, by one fetch, of the site that follows the fetched ones
C19_TaskStep(t) ==
    /\ tasks[t].state = "running" => tasks'[t].state # "queued"
    /\ tasks[t].state \in {"returned", "raised"} =>
           tasks'[t] = tasks[t] /\ fetched'[t] = fetched[t]
    /\ \/ fetched'[t] = fetched[t]
       \/ /\ tasks[t].state = "running"
          /\ Len(fetched[t]) < Len(sites)
          /\ Len(fetched'[t]) = Len(fetched[t]) + 1
          /\ SubSeq(fetched'[t], 1, Len(fetched[t])) = fetched[t]
          /\ fetched'[t][Len(fetched'[t])].site = sites[Len(fetched[t]) + 1]

C20_EmptyResultIsSuccess ==
    \A t \in DOMAIN tasks :
        \A i \in 1..Len(fetched[t]) :
            fetched[t][i].outcome = "empty" =>
                /\ fetched[t][i].site \in DOMAIN tasks[t].site_counts
                /\ tasks[t].site_counts[fetched[t][i].site] = 0
                /\ fetched[t][i].site \notin DOMAIN tasks[t].errors
                /\ tasks[t].next > i
                /\ tasks[t].state = "returned" => Len(fetched[t]) = Len(sites)

\* a task got nothing from its first site, postings from the second, and
\* returned without an error
C20_Witness ==
    /\ Len(sites) = 2
    /\ tasks[1].state = "returned"
    /\ fetched[1] = <<[site |-> sites[1], outcome |-> "empty"],
                      [site |-> sites[2], outcome |-> "records"]>>
    /\ tasks[1].site_counts[sites[1]] = 0
    /\ tasks[1].site_counts[sites[2]] = Len(tasks[1].jobs_data)
    /\ tasks[1].jobs_data # <<>>
    /\ tasks[1].errors = EmptyDict

-----------------------------------------------------------------------------
(* Claims about flat lists and the order of the groups *)

\* the strings of a flat list
StringsOf(list) == [i \in 1..Len(list) |-> list[i].s]

IsFlat(list) == \A i \in 1..Len(list) : list[i].k = "str"

\* the list with its elements in the order perm
Permuted(list, perm) == [i \in 1..Len(list) |-> list[perm[i]]]

\* C21: for a flat list P of pattern strings apply_title_filter(record, P)
\* equals apply_title_filter(record, [P]), and apply_keyword_filter
\* likewise; for a list of groups both give the same answer for every order
\* of the groups.
C21_FlatListIsOneGroup ==
    f_pc = "done" =>
        LET titles   == filter_config.job_titles
            keywords == filter_config.description_keywords
        IN  /\ IsFlat(titles) =>
                   f_title_ok = apply_title_filter(f_job, <<PatGroup(StringsOf(titles))>>)
            /\ IsFlat(keywords) =>
                   f_keyword_ok = apply_keyword_filter(f_job, <<PatGroup(StringsOf(keywords))>>)
            /\ IsNested(titles) =>
                   \A perm \in Orders(Len(titles)) :
                       f_title_ok = apply_title_filter(f_job, Permuted(titles, perm))
            /\ IsNested(keywords) =>
                   \A perm \in Orders(Len(keywords)) :
                       f_keyword_ok = apply_keyword_filter(f_job, Permuted(keywords, perm))

\* the flat title list 'a', 'B' keeps the title "b" through its second
\* pattern, as the one group ['a', 'B'] does; the keyword groups ['B'] and
\* ['a'] reject the description "cb" in either order
C21_Witness ==
    /\ f_pc = "done"
    /\ filter_config.job_titles = <<PatStr(PatA), PatStr(PatB)>>
    /\ filter_config.description_keywords = <<PatGroup(<<PatB>>), PatGroup(<<PatA>>)>>
    /\ Get(f_job, "title", None) = Txt(<<"b">>)
    /\ Get(f_job, "description", None) = Txt(<<"c", "b">>)
    /\ f_title_ok
    /\ apply_title_filter(f_job, <<PatGroup(<<PatA, PatB>>)>>)
    /\ ~f_keyword_ok
    /\ ~apply_keyword_filter(f_job, <<PatGroup(<<PatA>>), PatGroup(<<PatB>>)>>)

-----------------------------------------------------------------------------
(* Claims about the tasks of a workflow run *)

\* C22: when the caller gives no job_titles and the configuration is read,
\* the run that returned without a fault has scraped with one task per entry
\* of the configuration's search_terms, in their order (and with no task at
\* all when search_terms is empty); job_titles of the configuration is a
\* filter list only.
C22_TaskPerSearchTerm ==
    (/\ w_pc = "returned"
     /\ ~w_args.job_titles.given
     /\ w_config.file = "ok"
     /\ w_faults = <<>>) =>
        IF w_config.search_terms = <<>>
        THEN "scraping" \notin DOMAIN results.steps
        ELSE /\ "scraping" \in DOMAIN results.steps
             /\ LET summary == results.steps["scraping"].summary
                IN  /\ summary.tasks_total = Len(w_config.search_terms)
                    /\ summary.job_titles =
                           [i \in 1..Len(w_config.search_terms) |->
                               PatStr(w_config.search_terms[i])]

-----------------------------------------------------------------------------
(* Specification SpecStats: get_job_statistics on one list of records *)

StatRecord(company, location, compensation) ==
    Dict([title |-> Txt(<<"a">>), company |-> company, location |-> location,
          compensation |-> compensation])

\* short lists over a few records: a company that is absent, two locations,
\* a compensation that is None, empty or given
StatRecords ==
    {StatRecord(c, l, p) :
        c \in {Missing, Txt(<<"b">>)},
        l \in {Txt(<<"c">>), Txt(<<"d">>)},
        p \in {None, Txt(<<>>), Txt(<<"5">>)}}

\* the n-th of many companies
Company(n) == Txt(<<"C">> \o Digits(n))

\* long lists: one record for each of TOP_N + 2 companies, then a second
\* record for company r
LongJobs(r) ==
    [i \in 1..(TOP_N + 3) |->
        StatRecord(Company(IF i = TOP_N + 3 THEN r ELSE i), Txt(<<"c">>), None)]

StatsInit ==
    /\ g_pc = "ready"
    /\ g_jobs \in SeqsUpTo(StatRecords, MaxJobs) \cup {LongJobs(r) : r \in 1..(TOP_N + 2)}
    /\ g_stats = [total |-> 0]
    /\ ProcIdle /\ CleanIdle /\ FilterIdle /\ PoolIdle /\ WfIdle /\ ThreadsIdle /\ MarkIdle /\ PartIdle /\ StoreIdle /\ AddIdle /\ TermIdle /\ ConcIdle /\ ScrapeIdle

GetJobStatistics ==
    /\ g_pc = "ready"
    /\ g_stats' = get_job_statistics(g_jobs)
    /\ g_pc' = "done"
    /\ UNCHANGED <<g_jobs, p_vars, c_vars, f_vars, s_vars, w_vars, t_vars, m_vars, k_vars, d_vars, a_vars, b_vars, x_vars, j_vars>>

StatsNext == GetJobStatistics

SpecStats == StatsInit /\ [][StatsNext]_vars

-----------------------------------------------------------------------------
(* Claims about the statistics *)

\* the value a record is counted under
CountedAs(job, field) == Get(job, field, Txt(<<"Unknown">>))

ValuesOf(jobs, field) == {CountedAs(jobs[i], field) : i \in 1..Len(jobs)}

CountOf(jobs, field, v) ==
    Cardinality({i \in 1..Len(jobs) : CountedAs(jobs[i], field) = v})

\* the index of the first record counted under v
FirstAt(jobs, field, v) ==
    CHOOSE i \in 1..Len(jobs) :
        /\ CountedAs(jobs[i], field) = v
        /\ \A j \in 1..(i - 1) : CountedAs(jobs[j], field) # v

\* value a ranks before value b: a larger count, or the same count and an
\* earlier first record
RanksBefore(jobs, field, a, b) ==
    \/ CountOf(jobs, field, a) > CountOf(jobs, field, b)
    \/ /\ CountOf(jobs, field, a) = CountOf(jobs, field, b)
       /\ FirstAt(jobs, field, a) < FirstAt(jobs, field, b)

\* top is the list of the first ten values in rank order, with their counts
IsTopList(top, jobs, field) ==
    LET values == ValuesOf(jobs, field)
        n      == Cardinality(values)
    IN  /\ Len(top) = (IF n < 10 THEN n ELSE 10)
        /\ \A k \in 1..Len(top) :
               /\ top[k].key \in values
               /\ top[k].count = CountOf(jobs, field, top[k].key)
        /\ \A k, l \in 1..Len(top) :
               k < l => RanksBefore(jobs, field, top[k].key, top[l].key)
        /\ \A v \in values :
               (\A k \in 1..Len(top) : top[k].key # v) =>
                   \A k \in 1..Len(top) : RanksBefore(jobs, field, top[k].key, v)

\* the six statistics of a list of records
StatisticsOf(stats, jobs) ==
    /\ DOMAIN stats = {"total", "unique_companies", "unique_locations",
                       "with_compensation", "top_companies", "top_locations"}
    /\ stats.total = Len(jobs)
    /\ stats.unique_companies = Cardinality(ValuesOf(jobs, "company"))
    /\ stats.unique_locations = Cardinality(ValuesOf(jobs, "location"))
    /\ stats.with_compensation =
           Cardinality({i \in 1..Len(jobs) :
                           /\ Get(jobs[i], "compensation", None).k = "str"
                           /\ Get(jobs[i], "compensation", None).s # <<>>})
    /\ IsTopList(stats.top_companies, jobs, "company")
    /\ IsTopList(stats.top_locations, jobs, "location")

\* C23 as stated: for every list of records get_job_statistics returns the
\* total, the two numbers of distinct values, the number of records with a
\* compensation and the two top-10 lists.
C23_StatisticsEveryList ==
    g_pc = "done" => StatisticsOf(g_stats, g_jobs)

\* C23, amended: for a list that is not empty, total is the number of
\* records, unique_companies and unique_locations the numbers of distinct
\* values, with_compensation the number of records with a non-empty
\* compensation, and each top list the at most 10 most frequent values in
\* descending count order, values of equal count in order of first
\* encounter; for the empty list the result is total = 0 and nothing else.
C23_Statistics ==
    g_pc = "done" =>
        IF g_jobs = <<>> THEN g_stats = [total |-> 0]
        ELSE StatisticsOf(g_stats, g_jobs)

\* twelve companies with one record each and a second record for the last:
\* the last company leads, the first nine follow in input order, the tenth
\* and the eleventh are cut off
C23_Witness ==
    /\ g_pc = "done"
    /\ g_jobs = LongJobs(TOP_N + 2)
    /\ g_stats.total = TOP_N + 3
    /\ g_stats.unique_companies = TOP_N + 2
    /\ Len(g_stats.top_companies) = TOP_N
    /\ g_stats.top_companies[1] = [key |-> Company(TOP_N + 2), count |-> 2]
    /\ \A k \in 2..TOP_N : g_stats.top_companies[k] = [key |-> Company(k - 1), count |-> 1]
    /\ g_stats.top_locations = <<[key |-> Txt(<<"c">>), count |-> TOP_N + 3]>>

-----------------------------------------------------------------------------
(* Claims about the aggregation of the tasks' postings *)

\* the postings of the tasks of a list, task after task
RECURSIVE JobsOfTasks(_)
JobsOfTasks(order) ==
    IF order = <<>> THEN <<>>
    ELSE tasks[Head(order)].jobs_data \o JobsOfTasks(Tail(order))

\* how often x is in the list
Occurrences(list, x) == Cardinality({i \in 1..Len(list) : list[i] = x})

\* the same postings, each as often, in any order
SameBag(a, b) ==
    /\ Range(a) = Range(b)
    /\ \A x \in Range(a) : Occurrences(a, x) = Occurrences(b, x)

\* C24: when JobSpyScraper.run has returned, completed_tasks holds the tasks
\* whose run returned, each once, all_jobs is their postings task after task
\* in the order of completed_tasks, and whatever other order the tasks could
\* have completed in gives the same postings, each as often.
C24_AggregationOrderFree ==
    s_pc = "returned" =>
        /\ \A t \in DOMAIN tasks : Occurrences(completed_tasks, t) <= 1
        /\ Range(completed_tasks) = {t \in DOMAIN tasks : tasks[t].state = "returned"}
        /\ all_jobs = JobsOfTasks(completed_tasks)
        /\ \A perm \in Orders(Len(completed_tasks)) :
               SameBag(all_jobs, JobsOfTasks(Permuted(completed_tasks, perm)))

\* the second task completed before the first: all_jobs has its postings
\* first, and the same postings as in the order of submission
C24_Witness ==
    /\ s_pc = "returned"
    /\ completed_tasks = <<2, 1>>
    /\ tasks[1].jobs_data # <<>> /\ tasks[2].jobs_data # <<>>
    /\ all_jobs = tasks[2].jobs_data \o tasks[1].jobs_data
    /\ all_jobs # JobsOfTasks(<<1, 2>>)
    /\ SameBag(all_jobs, JobsOfTasks(<<1, 2>>))

-----------------------------------------------------------------------------
(* Claims about who writes what in the scrape fan-out *)

\* the accumulation fields of a task
Accumulated(task) ==
    [jobs_data |-> task.jobs_data, site_counts |-> task.site_counts,
     errors |-> task.errors]

\* a step that writes the accumulation fields of task t is a step of the
\* worker running t: t is running and not yet yielded, no other task and
\* nothing of the aggregate is written
C25_WorkerWrite(t) ==
    Accumulated(tasks'[t]) # Accumulated(tasks[t]) =>
        /\ tasks[t].state = "running"
        /\ t \notin collected
        /\ \A u \in DOMAIN tasks \ {t} : tasks'[u] = tasks[u]
        /\ UNCHANGED <<all_jobs, completed_tasks, collected>>

\* a step that writes the aggregate is a step of the aggregating thread for
\* one future: its task has finished, was not yielded before, no task is
\* written, and what is added to all_jobs is what the task holds
C25_AggregatorWrite ==
    <<all_jobs, completed_tasks, collected>>' # <<all_jobs, completed_tasks, collected>> =>
        /\ tasks' = tasks
        /\ \E t \in DOMAIN tasks \ collected :
               /\ tasks[t].state \in {"returned", "raised"}
               /\ collected' = collected \cup {t}
               /\ IF tasks[t].state = "returned"
                  THEN /\ completed_tasks' = Append(completed_tasks, t)
                       /\ all_jobs' = all_jobs \o tasks[t].jobs_data
                  ELSE UNCHANGED <<completed_tasks, all_jobs>>

\* C25: in every interleaving the accumulation fields of a task are written
\* only in steps of the worker running it, all_jobs and completed_tasks only
\* in steps of the aggregating thread, and the aggregating thread takes a
\* task's fields only once the task has finished, after which they do not
\* change.
C25_RaceFree ==
    /\ [](\A t \in collected : tasks[t].state \in {"returned", "raised"})
    /\ [][/\ \A t \in DOMAIN tasks : C25_WorkerWrite(t)
          /\ C25_AggregatorWrite
          /\ \A t \in DOMAIN tasks :
                 tasks[t].state \in {"returned", "raised"} => tasks'[t] = tasks[t]]_vars

\* two workers: the second task has been collected with its postings while
\* the first is still running and has postings of its own
C25_Witness ==
    /\ s_pc = "collecting"
    /\ num_threads = 2
    /\ Len(tasks) = 2
    /\ tasks[1].state = "running" /\ tasks[1].jobs_data # <<>>
    /\ tasks[2].state = "returned" /\ tasks[2].jobs_data # <<>>
    /\ collected = {2}
    /\ completed_tasks = <<2>>
    /\ all_jobs = tasks[2].jobs_data

-----------------------------------------------------------------------------
(* Claims about the result of an aborted run *)

\* the stage in which the run was aborted, 0 when it was not
AbortedIn ==
    IF \E i \in 1..Len(w_faults) : w_faults[i].handler = "outer"
    THEN CHOOSE n \in 1..5 :
             \E i \in 1..Len(w_faults) :
                 w_faults[i].handler = "outer" /\ w_faults[i].stage = Stages[n]
    ELSE 0

\* C26: a step entry, once recorded, stays in the result as it was recorded,
\* and a run that an exception aborted in some stage returns success = false
\* with the step entries of exactly the stages before that one.
C26_PartialResultsSurvive ==
    /\ []((w_pc = "returned" /\ AbortedIn > 0) =>
              /\ results.success = FALSE
              /\ DOMAIN results.steps = StagePrefix(AbortedIn - 1))
    /\ [][\A name \in DOMAIN results.steps :
              /\ name \in DOMAIN results'.steps
              /\ results'.steps[name] = results.steps[name]]_vars

\* the run was aborted while marking the filtered jobs: the result has the
\* config, scraping, processing and storage entries, one job stored
C26_Witness ==
    /\ w_pc = "returned"
    /\ AbortedIn = 5
    /\ results.success = FALSE
    /\ DOMAIN results.steps = StagePrefix(4)
    /\ results.steps["config"].job_titles = job_titles
    /\ results.steps["scraping"].raw_jobs_count = Len(w_raw_jobs)
    /\ results.steps["processing"].processed_count = Len(processed_jobs)
    /\ results.steps["storage"].stored_count = 1
    /\ results.steps["storage"].job_ids = job_ids

-----------------------------------------------------------------------------
(* Specification SpecStore: the persistence operations in any order *)

\* the job_data handed to add_job: a title, company and location, with or
\* without an ignore flag, and a record without a title
StoreJobInputs ==
    LET base(t) == [title |-> Txt(t), company |-> Txt(<<"b">>), location |-> Txt(<<"c">>)]
    IN  {base(PatA), base(PatB), Put(base(PatA), "ignore", 1), Put(base(PatB), "ignore", 0),
         [company |-> Txt(<<"b">>), location |-> Txt(<<"c">>)]}

\* the updates handed to update_job
UpdateInputs ==
    {[f \in {"ignore"} |-> 0], [f \in {"title"} |-> Txt(PatB)], [f \in {"id"} |-> 7]}

\* the ids of the rows of the jobs table
LiveIds == (1..Len(store_jobs)) \ d_deleted

\* the ids of a list that are in the table
RECURSIVE Known(_, _)
Known(job_id_list, live) ==
    IF job_id_list = <<>> THEN <<>>
    ELSE (IF Head(job_id_list) \in live THEN <<Head(job_id_list)>> ELSE <<>>)
         \o Known(Tail(job_id_list), live)

\* what the persistence operations leave alone
StoreRest ==
    <<w_pc, w_args, w_config, results, job_titles, w_sites, w_raw_jobs, processed_jobs,
      w_i, job_ids, stored_count, skipped_count, w_fetches, w_runs, w_dbcalls, w_faults,
      d_pc, p_vars, c_vars, f_vars, s_vars, t_vars, m_vars, k_vars, g_vars, a_vars,
      b_vars, x_vars, j_vars>>

\* an empty database, and the configuration file the filter reads
StoreInit ==
    /\ d_pc = "open" /\ d_deleted = {} /\ d_last = NoOp
    /\ store_jobs = <<>> /\ store_status = {}
    /\ w_config \in MarkConfigs
    /\ w_pc = "idle" /\ w_args = NoCall /\ results = NewResults
    /\ job_titles = <<>> /\ w_sites = <<>> /\ w_raw_jobs = <<>>
    /\ processed_jobs = <<>> /\ w_i = 1 /\ job_ids = <<>>
    /\ stored_count = 0 /\ skipped_count = 0
    /\ w_fetches = 0 /\ w_runs = NoRuns /\ w_dbcalls = 0 /\ w_faults = <<>>
    /\ ProcIdle /\ CleanIdle /\ FilterIdle /\ PoolIdle /\ ThreadsIdle /\ MarkIdle /\ PartIdle /\ StatsIdle /\ AddIdle /\ TermIdle /\ ConcIdle /\ ScrapeIdle

StoreAddJob ==
    /\ d_pc = "open"
    /\ Len(store_jobs) < MaxRows
    /\ \E job_data \in StoreJobInputs, create_statuses \in BOOLEAN, db_ok \in BOOLEAN :
           LET added == add_job(store_jobs, store_status, job_data, create_statuses, db_ok)
           IN  /\ store_jobs' = added.store_jobs
               /\ store_status' = added.store_status
               /\ d_last' = [op |-> "add_job", raised |-> added.raised]
    /\ UNCHANGED <<d_deleted, StoreRest>>

StoreUpdateJob ==
    /\ d_pc = "open"
    /\ \E job_id \in 1..(Len(store_jobs) + 1), updates \in UpdateInputs :
           store_jobs' = IF job_id \in LiveIds
                         THEN update_job(store_jobs, job_id, updates) ELSE store_jobs
    /\ d_last' = [op |-> "update_job", raised |-> FALSE]
    /\ UNCHANGED <<store_status, d_deleted, StoreRest>>

StoreSetJobIgnore ==
    /\ d_pc = "open"
    /\ \E job_id \in 1..(Len(store_jobs) + 1), ignore_value \in {0, 1} :
           store_jobs' = IF job_id \in LiveIds
                         THEN set_job_ignore(store_jobs, job_id, ignore_value)
                         ELSE store_jobs
    /\ d_last' = [op |-> "set_job_ignore", raised |-> FALSE]
    /\ UNCHANGED <<store_status, d_deleted, StoreRest>>

StoreDeleteJob ==
    /\ d_pc = "open"
    /\ \E job_id \in 1..(Len(store_jobs) + 1) :
           IF job_id \in LiveIds
           THEN /\ d_deleted' = delete_job(d_deleted, store_status, job_id).deleted
                /\ store_status' = delete_job(d_deleted, store_status, job_id).store_status
           ELSE UNCHANGED <<d_deleted, store_status>>
    /\ d_last' = [op |-> "delete_job", raised |-> FALSE]
    /\ UNCHANGED <<store_jobs, StoreRest>>

StoreCreateStatusRecords ==
    /\ d_pc = "open"
    /\ \E job_id \in 1..(Len(store_jobs) + 1) :
           LET created == create_application_status_records(store_jobs, LiveIds,
                                                             store_status, job_id)
           IN  /\ store_status' = created.store_status
               /\ d_last' = [op |-> "create_application_status_records",
                             raised |-> created.raised]
    /\ UNCHANGED <<store_jobs, d_deleted, StoreRest>>

StoreFilterAndMark ==
    /\ d_pc = "open"
    /\ \E job_id_list \in IdLists :
           LET marked == filter_and_mark_jobs(store_jobs, Known(job_id_list, LiveIds),
                                              w_config, 0)
           IN  store_jobs' = marked.store_jobs
    /\ d_last' = [op |-> "filter_and_mark_jobs", raised |-> FALSE]
    /\ UNCHANGED <<store_status, d_deleted, StoreRest>>

StoreNext ==
    \/ StoreAddJob
    \/ StoreUpdateJob
    \/ StoreSetJobIgnore
    \/ StoreDeleteJob
    \/ StoreCreateStatusRecords
    \/ StoreFilterAndMark

SpecStore == StoreInit /\ [][StoreNext]_vars

\* C27: every job of the table with ignore = 0 has exactly the 9 status
\* records, one per predefined status, and every status record belongs to a
\* job of the table.
C27_StatusRecordInvariant ==
    /\ \A job_id \in LiveIds :
           store_jobs[job_id].ignore = 0 =>
               /\ {r \in store_status : r[1] = job_id} = StatusRecords(job_id)
               /\ Cardinality({r \in store_status : r[1] = job_id}) = 9
    /\ \A r \in store_status : r[1] \in LiveIds

-----------------------------------------------------------------------------
(* Claims about a run that does not save *)

\* the processed records both filters accept
KeptInMemory ==
    LET config == load_filter_config(w_config)
    IN  {i \in 1..Len(processed_jobs) :
            /\ apply_title_filter(processed_jobs[i], config.job_titles)
            /\ apply_keyword_filter(processed_jobs[i], config.description_keywords)}

\* C28: a run with save_to_database = false never reaches the database and
\* leaves the jobs and the status records as they are; its storage step is
\* {'skipped': True}, and its filtering step holds the numbers of processed
\* records kept and ignored by the filters, and nothing else.
C28_NoSaveLeavesStore ==
    /\ [](~w_args.save_to_database =>
              /\ w_dbcalls = 0
              /\ job_ids = <<>> /\ stored_count = 0 /\ skipped_count = 0
              /\ "storage" \in DOMAIN results.steps =>
                     results.steps["storage"] = [skipped |-> TRUE]
              /\ "filtering" \in DOMAIN results.steps =>
                     results.steps["filtering"] =
                         [kept |-> Cardinality(KeptInMemory),
                          ignored |-> Len(processed_jobs) - Cardinality(KeptInMemory)])
    /\ [][~w_args.save_to_database => UNCHANGED <<store_jobs, store_status>>]_vars

\* a run over two search terms that does not save: the table keeps its one
\* job, one of the two processed records is kept and one ignored
C28_Witness ==
    /\ w_pc = "returned"
    /\ ~w_args.save_to_database
    /\ results.success = TRUE
    /\ store_jobs # <<>>
    /\ w_dbcalls = 0
    /\ Len(processed_jobs) = 2
    /\ results.steps["storage"] = [skipped |-> TRUE]
    /\ results.steps["filtering"] = [kept |-> 1, ignored |-> 1]

-----------------------------------------------------------------------------
(* Specification SpecAddJob: one call of add_job, statement by statement *)

\* the tables before the call: empty, or one job with its status records
TablesInputs ==
    {NoPending, [jobs |-> <<Row(PatA, 0)>>, status |-> StatusRecords(1)]}

AddInit ==
    /\ a_pc = "called"
    /\ a_job_data \in StoreJobInputs
    /\ a_create_statuses \in BOOLEAN
    /\ a_before \in TablesInputs
    /\ a_jobs = a_before.jobs /\ a_status = a_before.status
    /\ a_session = "none" /\ a_pending = NoPending /\ a_exc = <<>>
    /\ ProcIdle /\ CleanIdle /\ FilterIdle /\ PoolIdle /\ WfIdle /\ ThreadsIdle /\ MarkIdle /\ PartIdle /\ StatsIdle /\ StoreIdle /\ TermIdle /\ ConcIdle /\ ScrapeIdle

\* validate_job_data(job_data), before any session exists
AddValidate ==
    /\ a_pc = "called"
    /\ IF validate_job_data(a_job_data) # ""
       THEN /\ a_pc' = "raised"
            /\ a_exc' = RequiredFieldError(validate_job_data(a_job_data))
       ELSE /\ a_pc' = "validated"
            /\ UNCHANGED a_exc
    /\ UNCHANGED <<a_job_data, a_create_statuses, a_before, a_jobs, a_status, a_session,
                   a_pending, p_vars, c_vars, f_vars, s_vars, w_vars, t_vars, m_vars,
                   k_vars, g_vars, d_vars, b_vars, x_vars, j_vars>>

\* with get_db_context() as db: db = SessionLocal()
AddOpen ==
    /\ a_pc = "validated"
    /\ a_session' = "open"
    /\ a_pc' = "open"
    /\ UNCHANGED <<a_job_data, a_create_statuses, a_before, a_jobs, a_status, a_pending,
                   a_exc, p_vars, c_vars, f_vars, s_vars, w_vars, t_vars, m_vars,
                   k_vars, g_vars, d_vars, b_vars, x_vars, j_vars>>

\* job = Job(...); db.add(job); db.flush(), which may raise
AddFlush ==
    /\ a_pc = "open"
    /\ \/ LET flushed == SessionFlush([jobs |-> a_jobs, status |-> a_status], a_pending,
                                      JobRow(a_job_data))
          IN  /\ a_jobs' = flushed.jobs
              /\ a_status' = flushed.status
              /\ a_pending' = flushed.pending
              /\ a_pc' = "flushed"
              /\ UNCHANGED a_exc
       \/ /\ a_exc' = DatabaseError
          /\ a_pc' = "except"
          /\ UNCHANGED <<a_jobs, a_status, a_pending>>
    /\ UNCHANGED <<a_job_data, a_create_statuses, a_before, a_session,
                   p_vars, c_vars, f_vars, s_vars, w_vars, t_vars, m_vars,
                   k_vars, g_vars, d_vars, b_vars, x_vars, j_vars>>

\* if create_statuses and job.ignore == 0: _create_status_records_for_job;
\* job_id = job.id; the body of the with statement ends
AddStatuses ==
    /\ a_pc = "flushed"
    /\ LET job_id == Len(a_jobs) + Len(a_pending.jobs)
       IN  a_pending' =
               IF a_create_statuses /\ a_pending.jobs[Len(a_pending.jobs)].ignore = 0
               THEN [a_pending EXCEPT !.status = @ \cup StatusRecords(job_id)]
               ELSE a_pending
    /\ a_pc' = "body"
    /\ UNCHANGED <<a_job_data, a_create_statuses, a_before, a_jobs, a_status, a_session,
                   a_exc, p_vars, c_vars, f_vars, s_vars, w_vars, t_vars, m_vars,
                   k_vars, g_vars, d_vars, b_vars, x_vars, j_vars>>

\* db.commit() after the yield, which may raise
AddCommit ==
    /\ a_pc = "body"
    /\ \/ LET committed == SessionCommit([jobs |-> a_jobs, status |-> a_status], a_pending)
          IN  /\ a_jobs' = committed.jobs
              /\ a_status' = committed.status
              /\ a_pending' = NoPending
              /\ a_pc' = "finally"
              /\ UNCHANGED a_exc
       \/ /\ a_exc' = DatabaseError
          /\ a_pc' = "except"
          /\ UNCHANGED <<a_jobs, a_status, a_pending>>
    /\ UNCHANGED <<a_job_data, a_create_statuses, a_before, a_session,
                   p_vars, c_vars, f_vars, s_vars, w_vars, t_vars, m_vars,
                   k_vars, g_vars, d_vars, b_vars, x_vars, j_vars>>

\* except Exception: db.rollback(); raise
AddRollback ==
    /\ a_pc = "except"
    /\ a_pending' = SessionRollback(a_pending)
    /\ a_pc' = "finally"
    /\ UNCHANGED <<a_job_data, a_create_statuses, a_before, a_jobs, a_status, a_session,
                   a_exc, p_vars, c_vars, f_vars, s_vars, w_vars, t_vars, m_vars,
                   k_vars, g_vars, d_vars, b_vars, x_vars, j_vars>>

\* finally: db.close(); then add_job returns job_id or the exception goes on
AddClose ==
    /\ a_pc = "finally"
    /\ a_session' = "closed"
    /\ a_pending' = SessionRollback(a_pending)
    /\ a_pc' = IF a_exc = <<>> THEN "returned" ELSE "raised"
    /\ UNCHANGED <<a_job_data, a_create_statuses, a_before, a_jobs, a_status,
                   a_exc, p_vars, c_vars, f_vars, s_vars, w_vars, t_vars, m_vars,
                   k_vars, g_vars, d_vars, b_vars, x_vars, j_vars>>

AddNext ==
    \/ AddValidate
    \/ AddOpen
    \/ AddFlush
    \/ AddStatuses
    \/ AddCommit
    \/ AddRollback
    \/ AddClose

SpecAddJob == AddInit /\ [][AddNext]_vars

\* the tables of add_job seen as one step: unchanged when it raised, with
\* the job and its status records when it returned
AddJobWhole(db_ok) ==
    add_job(a_before.jobs, a_before.status, a_job_data, a_create_statuses, db_ok)

\* the committed tables are those of the call
TablesAre(jobs, status) == a_jobs = jobs /\ a_status = status

\* C29: at every moment the committed tables hold either what they held
\* before the call or that plus the new job together with all of its status
\* records; add_job returns only with the second, raises only with the
\* first, and in both cases the session it opened is closed and holds
\* nothing uncommitted.
C29_AddJobAtomic ==
    /\ \/ TablesAre(a_before.jobs, a_before.status)
       \/ /\ validate_job_data(a_job_data) = ""
          /\ TablesAre(AddJobWhole(TRUE).store_jobs, AddJobWhole(TRUE).store_status)
    /\ a_pc = "returned" =>
           /\ TablesAre(AddJobWhole(TRUE).store_jobs, AddJobWhole(TRUE).store_status)
           /\ Len(a_jobs) = Len(a_before.jobs) + 1
           /\ a_session = "closed" /\ a_pending = NoPending
    /\ a_pc = "raised" =>
           /\ TablesAre(a_before.jobs, a_before.status)
           /\ a_session \in {"closed", "none"}
           /\ a_session = "none" <=> validate_job_data(a_job_data) # ""
           /\ a_pending = NoPending

\* a call that would have added a job with its 9 status records raised in
\* the flush or in the commit: the tables hold the one job they held, the
\* session is closed
C29_Witness ==
    /\ a_pc = "raised"
    /\ a_exc = DatabaseError
    /\ a_session = "closed"
    /\ a_create_statuses /\ "ignore" \notin DOMAIN a_job_data
    /\ a_before.jobs # <<>>
    /\ TablesAre(a_before.jobs, a_before.status)
    /\ a_pending = NoPending

-----------------------------------------------------------------------------
(* Specification SpecTerm: the arguments of one fetch, composed both ways *)

MaxHours == 730     \* largest hours_old tried

LocationInputs == {None, Txt(<<>>), Txt(<<"c">>)}

TermInit ==
    /\ b_pc = "ready"
    /\ b_site \in Range(SUPPORTED_SITES)
    /\ b_hours_old \in -1..MaxHours
    /\ b_location \in LocationInputs
    /\ b_task_args = BaseArgs(<<>>, "indeed", 0, None)
    /\ b_single_args = BaseArgs(<<>>, "indeed", 0, None)
    /\ ProcIdle /\ CleanIdle /\ FilterIdle /\ PoolIdle /\ WfIdle /\ ThreadsIdle /\ MarkIdle /\ PartIdle /\ StatsIdle /\ StoreIdle /\ AddIdle /\ ConcIdle /\ ScrapeIdle

\* the arguments JobScrapeTask.run and scrape_single_site hand to
\* scrape_jobs for the first search term
ComposeArgs ==
    /\ b_pc = "ready"
    /\ b_task_args' = TaskScrapeArgs(TermInputs[1], b_site, b_hours_old, b_location)
    /\ b_single_args' = SingleScrapeArgs(TermInputs[1], b_site, b_hours_old, b_location)
    /\ b_pc' = "done"
    /\ UNCHANGED <<b_site, b_hours_old, b_location, p_vars, c_vars, f_vars, s_vars, w_vars,
                   t_vars, m_vars, k_vars, g_vars, d_vars, a_vars, x_vars, j_vars>>

TermNext == ComposeArgs

SpecTerm == TermInit /\ [][TermNext]_vars

\* the bucket text as the ranges of hours give it
BucketOf(h) ==
    CASE h <= 24               -> <<"24 Hours">>
      [] h \in 25..48          -> <<"2 Days">>
      [] h \in 49..72          -> <<"3 Days">>
      [] h \in 73..168         -> <<"Week">>
      [] h \in 169..720        -> <<"Month">>
      [] OTHER                 -> Digits(h) \o <<" Hours">>

\* C30: the composed query is among the arguments exactly for the site
\* google with a non-empty location; it then reads "<term> jobs near
\* <location> in the last <bucket>" with the bucket 24 Hours up to 24 hours,
\* 2 Days for 25..48, 3 Days for 49..72, Week for 73..168, Month for
\* 169..720 and "<hours> Hours" above, and JobScrapeTask.run and
\* scrape_single_site compose the same arguments.
C30_RecencyBucket ==
    b_pc = "done" =>
        LET wanted == b_site = "google" /\ b_location.k = "str" /\ b_location.s # <<>>
        IN  /\ ("google_search_term" \in DOMAIN b_task_args) <=> wanted
            /\ ("google_search_term" \in DOMAIN b_single_args) <=> wanted
            /\ wanted =>
                   b_task_args["google_search_term"] =
                       TermInputs[1] \o <<" jobs near ">> \o b_location.s
                       \o <<" in the last ">> \o BucketOf(b_hours_old)
            /\ b_single_args = b_task_args
            /\ DateStr(b_hours_old) = DateStrSingle(b_hours_old)

\* a fetch of google with a location and hours_old = 721: the bucket is the
\* hour count itself
C30_Witness ==
    /\ b_pc = "done"
    /\ b_site = "google"
    /\ b_location = Txt(<<"c">>)
    /\ b_hours_old = 721
    /\ b_task_args["google_search_term"] =
           <<"a", " jobs near ", "c", " in the last ", "7", "2", "1", " Hours">>
    /\ b_single_args["google_search_term"] = b_task_args["google_search_term"]

-----------------------------------------------------------------------------
(* Claims about what the filter stage writes *)

\* the row fails the filters of the configuration file
FailsFilter(row) ==
    LET config == load_filter_config(w_config)
    IN  ~(/\ apply_title_filter(row, config.job_titles)
          /\ apply_keyword_filter(row, config.description_keywords))

\* the ids handed to filter_and_mark_jobs: by the caller, or by step 5 of
\* the workflow
GivenIds == Range(m_job_ids) \cup Range(job_ids)

\* what a step of the filter stage may do to the row with this id
C31_RowStep(id) ==
    store_jobs'[id] # store_jobs[id] =>
        /\ store_jobs'[id] = [store_jobs[id] EXCEPT !.ignore = 1]
        /\ store_jobs[id].ignore = 0
        /\ id \in GivenIds
        /\ FailsFilter(store_jobs[id])

C31_WorkflowRows ==
    [][\A id \in 1..Len(store_jobs) : C31_RowStep(id)]_vars

-----------------------------------------------------------------------------
(* Specification SpecConcurrent: the storage loops of two workflow runs,
   each in its own thread, on one store.  get_job_by_criteria and add_job
   each open their own session, so a step of a run is one of these calls. *)

\* the records a run stores: what process_scraped_jobs makes of the postings
\* of two search terms
ConcRecords ==
    Range(process_scraped_jobs(SourceRecords(TermInputs[1], "indeed")
                               \o SourceRecords(TermInputs[2], "linkedin")))

\* lists of distinct records
ConcLists == {q \in SeqsUpTo(ConcRecords, MaxRows) :
                 /\ q # <<>>
                 /\ \A i, j \in 1..Len(q) : q[i] = q[j] => i = j}

\* both runs have processed their postings and enter step 4
ConcInit ==
    /\ x_pc = [r \in Runs |-> "lookup"]
    /\ x_jobs \in [Runs -> ConcLists]
    /\ x_i = [r \in Runs |-> 1]
    /\ x_job_ids = [r \in Runs |-> <<>>]
    /\ x_stored = [r \in Runs |-> 0]
    /\ x_skipped = [r \in Runs |-> 0]
    /\ x_store = <<>> /\ x_status = {}
    /\ ProcIdle /\ CleanIdle /\ FilterIdle /\ PoolIdle /\ WfIdle /\ ThreadsIdle /\ MarkIdle /\ PartIdle /\ StatsIdle /\ StoreIdle /\ AddIdle /\ TermIdle /\ ScrapeIdle

ConcRest ==
    <<p_vars, c_vars, f_vars, s_vars, w_vars, t_vars, m_vars, k_vars, g_vars, d_vars,
      a_vars, b_vars, j_vars>>

\* run r, loop body, first half: get_job_by_criteria for its next record
ConcLookup(r) ==
    /\ x_pc[r] = "lookup"
    /\ x_i[r] <= Len(x_jobs[r])
    /\ \/ /\ x_pc' = [x_pc EXCEPT ![r] = "failed"]
          /\ UNCHANGED <<x_i, x_skipped>>
       \/ LET job_data == x_jobs[r][x_i[r]]
              existing == get_job_by_criteria(x_store, job_data.title,
                                              job_data.company, job_data.location)
          IN  IF existing # 0
              THEN /\ x_skipped' = [x_skipped EXCEPT ![r] = @ + 1]
                   /\ x_i' = [x_i EXCEPT ![r] = @ + 1]
                   /\ UNCHANGED x_pc
              ELSE /\ x_pc' = [x_pc EXCEPT ![r] = "create"]
                   /\ UNCHANGED <<x_i, x_skipped>>
    /\ UNCHANGED <<x_jobs, x_job_ids, x_stored, x_store, x_status, ConcRest>>

\* run r, loop body, second half: add_job inside its own try
ConcCreate(r) ==
    /\ x_pc[r] = "create"
    /\ \E db_ok \in BOOLEAN :
           LET added == add_job(x_store, x_status, x_jobs[r][x_i[r]], TRUE, db_ok)
           IN  /\ x_store' = added.store_jobs
               /\ x_status' = added.store_status
               /\ IF added.raised
                  THEN UNCHANGED <<x_job_ids, x_stored>>
                  ELSE /\ x_job_ids' = [x_job_ids EXCEPT ![r] = Append(@, added.job_id)]
                       /\ x_stored' = [x_stored EXCEPT ![r] = @ + 1]
    /\ x_i' = [x_i EXCEPT ![r] = @ + 1]
    /\ x_pc' = [x_pc EXCEPT ![r] = "lookup"]
    /\ UNCHANGED <<x_jobs, x_skipped, ConcRest>>

\* run r, after the loop: the storage step is recorded
ConcStoreEnd(r) ==
    /\ x_pc[r] = "lookup"
    /\ x_i[r] > Len(x_jobs[r])
    /\ x_pc' = [x_pc EXCEPT ![r] = "stored"]
    /\ UNCHANGED <<x_jobs, x_i, x_job_ids, x_stored, x_skipped, x_store, x_status, ConcRest>>

ConcNext ==
    \E r \in Runs : ConcLookup(r) \/ ConcCreate(r) \/ ConcStoreEnd(r)

SpecConcurrent == ConcInit /\ [][ConcNext]_vars

\* the rows of the shared store with the title, company and location of rec
SameTriple(rec) ==
    {i \in 1..Len(x_store) : /\ x_store[i].title = rec.title
                             /\ x_store[i].company = rec.company
                             /\ x_store[i].location = rec.location}

\* C32: whatever the interleaving of the lookups and creations of two
\* concurrent runs, the store never holds two jobs with the same title,
\* company and location.
C32_OneJobPerTriple ==
    \A rec \in ConcRecords : Cardinality(SameTriple(rec)) <= 1

\* both runs are through step 4 without an error, each stored the record
\* they share, and the store holds it twice
C32_NoRunStoresACopy ==
    ~(/\ \A r \in Runs : x_pc[r] = "stored" /\ Len(x_jobs[r]) = 1 /\ x_stored[r] = 1
      /\ x_jobs[1] = x_jobs[2]
      /\ Cardinality(SameTriple(x_jobs[1][1])) = 2)

-----------------------------------------------------------------------------
(* Claims about what the processing stage keeps *)

\* the posting has a title, a company and a location after cleaning
ValidAfterCleaning(job) == validate_job(clean_job_data(job))

\* the processed list has a record with the deduplication key of the posting
Represented(job) ==
    \E j \in 1..Len(db_ready_jobs) : DedupKey(db_ready_jobs[j]) = DedupKey(job)

\* C33: every raw posting that is valid after cleaning is represented in the
\* output of process_scraped_jobs by a record with its deduplication key.
C33_NoValidPostingLost ==
    p_pc = "processed" =>
        \A i \in 1..Len(raw_jobs) :
            ValidAfterCleaning(raw_jobs[i]) => Represented(raw_jobs[i])

\* the first-seen posting of a key has a null title and fails validation;
\* the later posting with the same key has the title text "None", is valid
\* after cleaning, and the output has no record with this key
C33_ShadowedByNullTitle ==
    ~(/\ p_pc = "processed"
      /\ Len(raw_jobs) = 2
      /\ Get(raw_jobs[1], "title", Missing) = None
      /\ Get(raw_jobs[2], "title", Missing) = Txt(NoneText)
      /\ DedupKey(raw_jobs[1]) = DedupKey(raw_jobs[2])
      /\ ~ValidAfterCleaning(raw_jobs[1])
      /\ ValidAfterCleaning(raw_jobs[2])
      /\ db_ready_jobs = <<>>)

-----------------------------------------------------------------------------
(* Claims about the counters of the storage stage *)

\* the "Store error: ..." entries of results['errors']
StoreErrors ==
    {k \in 1..Len(results.errors) :
        /\ results.errors[k] # <<>>
        /\ Head(results.errors[k]) = "Store error: "}

\* the storage stage has run to its end
StorageCompleted == w_pc = "stored" /\ w_args.save_to_database

\* job_ids lists rows of the store, in increasing order
JobIdsAreRows ==
    /\ \A k \in 1..Len(job_ids) : job_ids[k] \in 1..Len(store_jobs)
    /\ \A k, l \in 1..Len(job_ids) : k < l => job_ids[k] < job_ids[l]

\* a step of the run creates a job exactly when it appends the id of the
\* new job to job_ids; no step removes a job or an id
C34_CreatedStep ==
    /\ w_pc # "called" => Len(store_jobs') >= Len(store_jobs)
    /\ w_pc \notin {"called", "returned"} =>
           IF Len(store_jobs') > Len(store_jobs)
           THEN /\ Len(store_jobs') = Len(store_jobs) + 1
                /\ job_ids' = Append(job_ids, Len(store_jobs'))
           ELSE job_ids' = job_ids

\* C34: when the storage stage completes, every processed record was stored,
\* skipped or reported as a store error, stored_count is the length of
\* job_ids, and job_ids holds the ids of the jobs this run created, each
\* once.
C34_StorageCounts ==
    /\ [](StorageCompleted =>
              /\ stored_count + skipped_count + Cardinality(StoreErrors)
                     = Len(processed_jobs)
              /\ stored_count = Len(job_ids)
              /\ results.steps["storage"] = [stored_count |-> stored_count,
                                             skipped_count |-> skipped_count,
                                             job_ids |-> job_ids])
    /\ [](w_pc \in {"lookup", "create", "stored"} => JobIdsAreRows)
    /\ [][C34_CreatedStep]_vars

\* a completed storage stage where one record was stored and one failed
\* with a store error
C34_Witness ==
    /\ StorageCompleted
    /\ stored_count = 1 /\ Cardinality(StoreErrors) = 1
    /\ Len(processed_jobs) = 2

\* a completed storage stage with a skipped duplicate and a stored record
C34_WitnessSkipped ==
    /\ StorageCompleted
    /\ stored_count = 1 /\ skipped_count = 1

-----------------------------------------------------------------------------
(* Claims about the bookkeeping of a task *)

\* the sum of the site_counts of the first n sites
RECURSIVE SumCounts(_, _)
SumCounts(counts, n) ==
    IF n = 0 THEN 0
    ELSE Get(counts, sites[n], 0) + SumCounts(counts, n - 1)

\* C35: when the run of a task has returned, site_counts has an entry for
\* every site of the task and for nothing else, errors has entries for
\* sites only, a site with an error has the count 0, and the counts add up
\* to the number of postings in jobs_data.
C35_TaskBookkeeping ==
    \A t \in DOMAIN tasks :
        tasks[t].state = "returned" =>
            /\ DOMAIN tasks[t].site_counts = Range(sites)
            /\ DOMAIN tasks[t].errors \subseteq Range(sites)
            /\ \A x \in DOMAIN tasks[t].errors : tasks[t].site_counts[x] = 0
            /\ SumCounts(tasks[t].site_counts, Len(sites)) = Len(tasks[t].jobs_data)

\* a returned task with a site that gave postings, a site that gave none
\* and a site that failed
C35_Witness ==
    \E t \in DOMAIN tasks :
        /\ tasks[t].state = "returned"
        /\ Len(sites) = 3
        /\ \E x, y, z \in Range(sites) :
               /\ tasks[t].site_counts[x] > 0
               /\ tasks[t].site_counts[y] = 0 /\ y \notin DOMAIN tasks[t].errors
               /\ z \in DOMAIN tasks[t].errors

-----------------------------------------------------------------------------
(* Specification SpecScrapeJobs: the routes that start background scrape
   jobs.  Job ids stand for the uuid-based ids, taken to be fresh. *)

\* what the workflow can return to a caller whose call it accepts
WorkflowReturns ==
    {[NewResults EXCEPT !.success = TRUE],
     OuterExcept(NewResults, <<"No job titles provided">>).results}

ScrapeInit ==
    /\ scrape_jobs = EmptyDict
    /\ j_pc = [j \in ScrapeIds |-> "none"]
    /\ j_use_config = [j \in ScrapeIds |-> TRUE]
    /\ j_call = [j \in ScrapeIds |-> NotCalled]
    /\ j_now = 1800
    /\ ProcIdle /\ CleanIdle /\ FilterIdle /\ PoolIdle /\ WfIdle /\ ThreadsIdle /\ MarkIdle /\ PartIdle /\ StatsIdle /\ StoreIdle /\ AddIdle /\ TermIdle /\ ConcIdle

ScrapeRest ==
    <<p_vars, c_vars, f_vars, s_vars, w_vars, t_vars, m_vars, k_vars, g_vars, d_vars,
      a_vars, b_vars, x_vars>>

\* POST /api/scrape/start: cleanup_old_jobs, the new entry, the thread
StartScraping ==
    \E j \in ScrapeIds, use_config \in BOOLEAN :
        /\ j_pc[j] = "none"
        /\ \A i \in ScrapeIds : i < j => j_pc[i] # "none"
        /\ scrape_jobs' = Put(cleanup_old_jobs(scrape_jobs, j_now), j, NewScrapeJob(j_now))
        /\ j_pc' = [j_pc EXCEPT ![j] = "pending"]
        /\ j_use_config' = [j_use_config EXCEPT ![j] = use_config]
        /\ UNCHANGED <<j_call, j_now, ScrapeRest>>

\* run_scraping_background, line 26
BgRunning(j) ==
    /\ j_pc[j] = "pending"
    /\ scrape_jobs' = [scrape_jobs EXCEPT ![j].status = "running"]
    /\ j_pc' = [j_pc EXCEPT ![j] = "running"]
    /\ UNCHANGED <<j_use_config, j_call, j_now, ScrapeRest>>

\* run_scraping_background, lines 38-41: the call of the workflow
BgCall(j) ==
    /\ j_pc[j] = "running"
    /\ \E returned \in WorkflowReturns :
           j_call' = [j_call EXCEPT ![j] = CallWorkflow(BackgroundKeywords, returned)]
    /\ j_pc' = [j_pc EXCEPT ![j] = "called"]
    /\ UNCHANGED <<scrape_jobs, j_use_config, j_now, ScrapeRest>>

\* run_scraping_background, lines 43-52: the result or the exception is
\* written to the entry
BgSettle(j) ==
    /\ j_pc[j] = "called"
    /\ scrape_jobs' = [scrape_jobs EXCEPT ![j] = SettleJob(@, j_call[j])]
    /\ j_pc' = [j_pc EXCEPT ![j] = "settled"]
    /\ UNCHANGED <<j_use_config, j_call, j_now, ScrapeRest>>

\* run_scraping_background, line 54
BgFinally(j) ==
    /\ j_pc[j] = "settled"
    /\ scrape_jobs' = [scrape_jobs EXCEPT ![j].end_time = [given |-> TRUE, v |-> j_now]]
    /\ j_pc' = [j_pc EXCEPT ![j] = "ended"]
    /\ UNCHANGED <<j_use_config, j_call, j_now, ScrapeRest>>

\* half an hour passes
Tick ==
    /\ j_now < 1800 * (MaxTicks + 1)
    /\ j_now' = j_now + 1800
    /\ UNCHANGED <<scrape_jobs, j_pc, j_use_config, j_call, ScrapeRest>>

BgStep(j) == BgRunning(j) \/ BgCall(j) \/ BgSettle(j) \/ BgFinally(j)

ScrapeNext ==
    \/ StartScraping
    \/ \E j \in ScrapeIds : BgStep(j)
    \/ Tick

SpecScrapeJobs == ScrapeInit /\ [][ScrapeNext]_vars

\* the thread of a job, once started, is scheduled until it ends
SpecScrapeJobsLive ==
    SpecScrapeJobs /\ \A j \in ScrapeIds : WF_vars(BgStep(j))

-----------------------------------------------------------------------------
(* Claims about the background scrape jobs *)

Terminal(status) == status \in {"completed", "failed"}

C36_StatusOrder ==
    [][\A j \in DOMAIN scrape_jobs :
           IF j \in DOMAIN scrape_jobs'
           THEN LET old == scrape_jobs[j].status
                    new == scrape_jobs'[j].status
                IN  \/ new = old
                    \/ old = "pending" /\ new = "running"
                    \/ old = "running" /\ Terminal(new)
           ELSE scrape_jobs[j].end_time.given]_vars

\* a job with an end_time has a terminal status
C36_EndedIsTerminal ==
    \A j \in DOMAIN scrape_jobs :
        scrape_jobs[j].end_time.given => Terminal(scrape_jobs[j].status)

\* every job that was started gets a terminal status and an end_time
C36_EventuallyEnded ==
    \A j \in ScrapeIds : (j_pc[j] = "pending") ~> (j_pc[j] = "ended")

\* no job ever has the status 'completed'
C36_NeverCompleted ==
    \A j \in DOMAIN scrape_jobs : scrape_jobs[j].status # "completed"

\* an ended job that failed on the keyword arguments of the call, with no
\* result of the workflow
C36_FailedOnCall ==
    ~(\E j \in DOMAIN scrape_jobs :
          /\ scrape_jobs[j].end_time.given
          /\ scrape_jobs[j].status = "failed"
          /\ ~scrape_jobs[j].results.given
          /\ scrape_jobs[j].error = Arg(UnexpectedKeyword("search_terms")))

-----------------------------------------------------------------------------
(* Specification SpecRun: a whole run of execute_full_scraping_workflow in
   which step 2 is carried out by the thread pool of JobSpyScraper.run,
   worker by worker, instead of in one step. *)

\* the configuration files of the runs: none, a malformed one, one without
\* and one with a search term
WholeRunConfigs ==
    {NoConfig, ConfigFile("malformed", <<>>, <<>>, <<>>)}
    \cup {ConfigFile("ok", st, <<PatStr(TermInputs[1])>>, <<>>) :
            st \in {<<>>, <<TermInputs[1]>>}}

RunInit ==
    /\ WfInit
    /\ w_config \in WholeRunConfigs

\* step 2, up to the submission of the tasks: JobSpyScraper(...) and the
\* head of run.  The constructor's os.makedirs can fail, and run's log line
\* joins the titles
WfSubmit ==
    /\ w_pc = "configured"
    /\ s_pc = "idle"
    /\ \/ /\ \E msg \in {<<"Permission denied: 'jobs_data'">>} \cup
                        (IF JoinOk(job_titles) THEN {} ELSE {JoinError}) :
                 /\ w_pc' = OuterExcept(results, msg).pc
                 /\ results' = OuterExcept(results, msg).results
                 /\ w_faults' = Append(w_faults, Fault("scraping", msg, "outer"))
          /\ UNCHANGED s_vars
       \/ /\ JoinOk(job_titles)
          /\ w_pc' = "scraping"
          /\ s_pc' = "collecting"
          /\ sites' = ScraperSites(w_sites)
          /\ num_threads' \in {1, 2}
          /\ tasks' = [t \in 1..Len(job_titles) |-> NewTask(job_titles[t].s)]
          /\ fetched' = [t \in 1..Len(job_titles) |-> <<>>]
          /\ collected' = {} /\ completed_tasks' = <<>> /\ all_jobs' = <<>>
          /\ UNCHANGED <<results, w_faults>>
    /\ UNCHANGED <<w_args, w_config, job_titles, w_sites, w_raw_jobs, processed_jobs,
                   w_i, job_ids, stored_count, skipped_count, store_jobs, store_status,
                   w_fetches, w_runs, w_dbcalls,
                   p_vars, c_vars, f_vars, t_vars, m_vars, k_vars, g_vars, d_vars,
                   a_vars, b_vars, x_vars, j_vars>>

\* the fetches the workers made
FetchCount ==
    Cardinality({<<t, i>> \in (DOMAIN tasks) \X (1..Len(sites)) : i <= Len(fetched[t])})

\* step 2, after scraper.run() returned: get_summary, the recorded step and
\* the early return when nothing was scraped
WfCollected ==
    /\ w_pc = "scraping"
    /\ s_pc = "returned"
    /\ LET summary == get_summary(job_titles, sites, tasks,
                                  [completed_tasks |-> completed_tasks,
                                   all_jobs |-> all_jobs])
           recorded == SetStep(results, "scraping",
                               [raw_jobs_count |-> Len(all_jobs), summary |-> summary])
       IN  /\ w_raw_jobs' = all_jobs
           /\ w_fetches' = w_fetches + FetchCount
           /\ IF all_jobs = <<>>
              THEN /\ results' = [recorded EXCEPT !.success = TRUE]
                   /\ w_pc' = "returned"
              ELSE /\ results' = recorded
                   /\ w_pc' = "scraped"
    /\ UNCHANGED <<w_args, w_config, job_titles, w_sites, processed_jobs, w_i, job_ids,
                   stored_count, skipped_count, store_jobs, store_status, w_runs,
                   w_dbcalls, w_faults,
                   p_vars, c_vars, f_vars, s_vars, t_vars, m_vars, k_vars, g_vars, d_vars,
                   a_vars, b_vars, x_vars, j_vars>>

\* the steps that call a source, the store or the pool
RunCalls ==
    \/ WfConfig
    \/ WfSubmit
    \/ \E t \in DOMAIN tasks :
           \/ WorkerStart(t)
           \/ WorkerFetch(t)
           \/ WorkerReturn(t)
           \/ WorkerRaise(t)
           \/ CollectFuture(t)
    \/ RunReturn
    \/ WfCollected
    \/ WfLookup
    \/ WfCreate
    \/ WfStoreEnd
    \/ WfFilter

RunNext == RunCalls \/ WfProcess

SpecRun == RunInit /\ [][RunNext]_vars

\* weak fairness of WfProcess, with ENABLED <<WfProcess>>_vars written as
\* the guard of the step, w_pc = "scraped": the in-memory processing ends
ProcessingEnds == []<>(w_pc # "scraped") \/ []<><<WfProcess>>_vars

\* every fetch and every persistence call returns or fails, and a thread
\* that can take a step is scheduled: the run does not stop while a step of
\* it is possible
SpecRunLive == SpecRun /\ WF_vars(RunCalls) /\ ProcessingEnds

-----------------------------------------------------------------------------
(* Claims about termination *)

\* no task is queued or running
NoWorkerBusy == \A t \in DOMAIN tasks : tasks[t].state \in {"returned", "raised"}

\* C37: every call of execute_full_scraping_workflow returns a result;
\* JobSpyScraper.run returns only when every submitted task has returned or
\* raised, so no worker is running when the results are processed.
C37_Termination ==
    /\ <>(w_pc = "returned")
    /\ [](s_pc = "returned" => NoWorkerBusy /\ collected = DOMAIN tasks)
    /\ [](w_pc \in {"scraped", "lookup", "create", "stored"} =>
              s_pc = "returned" /\ NoWorkerBusy)

\* a run that is storing its records after a pool in which one task
\* returned and another raised
C37_Witness ==
    /\ w_pc = "lookup"
    /\ s_pc = "returned"
    /\ Len(tasks) = 2
    /\ \E t, u \in DOMAIN tasks : tasks[t].state = "returned" /\ tasks[u].state = "raised"

\* a run that has returned its result with the five steps recorded
C37_WitnessReturned ==
    /\ w_pc = "returned"
    /\ results.success
    /\ DOMAIN results.steps = {"config", "scraping", "processing", "storage", "filtering"}

====
